-------------------------- MODULE ExpressionProofs --------------------------
(***************************************************************************)
(* Proof that Sema, EvalConstant and CodeGen treat integer expressions as  *)
(* C does, for expressions and words of any size, outside the shapes that  *)
(* the properties name.  All four readings of a node follow the structure  *)
(* of the tree, so the invariant is about each node on the parser's stack  *)
(* and has one lemma for each kind of expression.                          *)
(***************************************************************************)
EXTENDS ExpressionMeaning, FiniteSetTheorems, TLAPS

-----------------------------------------------------------------------------
(* Words *)

\* Every nonempty set of naturals has a least element.
LEMMA NatSetMin ==
  ASSUME NEW T \in SUBSET Nat, T # {}
  PROVE  \E x \in T : \A y \in T : x <= y
<1>1. PICK x \in T : \A y \in T : <<y, x>> \notin OpToRel(<, Nat)
  BY NatLessThanWellFounded, WFMin
<1>2. \A y \in T : ~(y < x)
  BY <1>1 DEF OpToRel
<1>3. QED
  BY <1>2

\* The widths that a word may have, and the numbers of one.
Widths == 1 .. LongWidth + 1

\* v is a number of the signed word of w bits.
InWord(w, v) == v \in Int /\ -(2^(w - 1)) <= v /\ v < 2^(w - 1)

\* The widths are numbers, in order.
LEMMA WidthsAre ==
  /\ CharWidth \in Nat /\ ShortWidth \in Nat /\ IntWidth \in Nat /\ LongWidth \in Nat
  /\ 1 < CharWidth /\ CharWidth < ShortWidth /\ ShortWidth < IntWidth /\ IntWidth < LongWidth
  /\ {1, CharWidth, ShortWidth, IntWidth, LongWidth, LongWidth + 1} \subseteq Widths
<1>1. CharWidth \in Nat /\ ShortWidth \in Nat /\ IntWidth \in Nat /\ LongWidth \in Nat
  BY WidthsAssumption
<1>2. 1 < CharWidth /\ CharWidth < ShortWidth /\ ShortWidth < IntWidth /\ IntWidth < LongWidth
  BY WidthsAssumption
<1>3. QED
  BY <1>1, <1>2 DEF Widths

\* A power of two is twice the one before.
LEMMA PowerStep ==
  ASSUME NEW n \in Widths
  PROVE  2^n \in Nat /\ 2^n = 2 * 2^(n - 1)
<1>1. n - 1 \in 0 .. LongWidth /\ (n - 1) + 1 = n
  BY WidthsAre DEF Widths
<1>2. 2^((n - 1) + 1) \in Nat /\ 2^((n - 1) + 1) = 2 * 2^(n - 1)
  BY <1>1, PowersAssumption
<1>3. QED
  BY <1>1, <1>2

\* Powers of two are positive.
LEMMA PowerPositive ==
  ASSUME NEW n \in 0 .. LongWidth + 1
  PROVE  2^n \in Nat \ {0}
<1> DEFINE Bad == {m \in 0 .. LongWidth + 1 : 2^m \notin Nat \ {0}}
<1>1. CASE Bad = {}
  BY <1>1
<1>2. CASE Bad # {}
  <2>1. PICK m \in Bad : \A k \in Bad : m <= k
    <3>1. Bad \subseteq Nat
      BY WidthsAre
    <3> HIDE DEF Bad
    <3>2. QED
      BY <1>2, <3>1, NatSetMin
  <2>2. m \in 0 .. LongWidth + 1 /\ 2^m \notin Nat \ {0}
    BY <2>1
  <2>3. m # 0
    <3>1. 2^0 \in Nat \ {0}
      OBVIOUS
    <3>2. SUFFICES ASSUME m = 0  PROVE FALSE
      OBVIOUS
    <3>3. QED
      BY <2>2, <3>1, <3>2, Zenon
  <2>4. m \in Widths /\ m - 1 \in 0 .. LongWidth + 1 /\ m - 1 < m
    BY <2>2, <2>3, WidthsAre DEF Widths
  <2>5. m - 1 \notin Bad
    <3> HIDE DEF Bad
    <3>1. m \in Int
      BY <2>2
    <3>2. QED
      BY <2>1, <2>4, <3>1
  <2>6. 2^(m - 1) \in Nat \ {0}
    BY <2>4, <2>5
  <2>7. 2^m \in Nat /\ 2^m = 2 * 2^(m - 1)
    BY <2>4, PowerStep
  <2>8. QED
    BY <2>2, <2>6, <2>7
<1>3. QED
  BY <1>1, <1>2

\* They grow.
LEMMA PowersGrow ==
  ASSUME NEW m \in 0 .. LongWidth + 1, NEW n \in 0 .. LongWidth + 1, m < n
  PROVE  2 * 2^m <= 2^n
<1> DEFINE Bad == {k \in 0 .. LongWidth + 1 : m < k /\ ~(2 * 2^m <= 2^k)}
<1>1. CASE Bad = {}
  BY <1>1
<1>2. CASE Bad # {}
  <2>1. PICK k \in Bad : \A j \in Bad : k <= j
    <3>1. Bad \subseteq Nat
      BY WidthsAre
    <3> HIDE DEF Bad
    <3>2. QED
      BY <1>2, <3>1, NatSetMin
  <2>2. k \in 0 .. LongWidth + 1 /\ m < k /\ ~(2 * 2^m <= 2^k) /\ m \in Nat /\ LongWidth \in Nat
    BY <2>1, WidthsAre
  <2>3. k \in Widths /\ k - 1 \in 0 .. LongWidth + 1 /\ k - 1 < k /\ m <= k - 1
    BY <2>2, WidthsAre DEF Widths
  <2>4. 2^k = 2 * 2^(k - 1) /\ 2^k \in Nat /\ 2^(k - 1) \in Nat \ {0} /\ 2^m \in Nat \ {0}
    BY <2>3, PowerStep, PowerPositive
  <2>5. m # k - 1
    BY <2>2, <2>4
  <2>6. k - 1 \notin Bad
    <3> HIDE DEF Bad
    <3>1. k \in Int
      BY <2>2
    <3>2. QED
      BY <2>1, <2>3, <3>1
  <2>7. 2 * 2^m <= 2^(k - 1)
    <3>1. m < k - 1
      BY <2>2, <2>3, <2>5
    <3>2. QED
      BY <2>3, <2>6, <3>1
  <2>8. QED
    BY <2>2, <2>4, <2>7
<1>3. QED
  BY <1>1, <1>2

\* Division by a positive number.
LEMMA ModIs ==
  ASSUME NEW v \in Int, NEW m \in Nat \ {0}
  PROVE  /\ (v % m) \in 0 .. m - 1
         /\ v \in 0 .. m - 1 => (v % m) = v
         /\ v \in -m .. -1 => (v % m) = v + m
OBVIOUS

\* A signed number of w bits is one of the word, and a number of the word stays.
LEMMA SignedIs ==
  ASSUME NEW w \in Widths, NEW v \in Int
  PROVE  /\ InWord(w, SignedOf(w, v))
         /\ InWord(w, v) => SignedOf(w, v) = v
<1> DEFINE h == 2^(w - 1)
           f == 2^w
           b == v % f
<1>1. f = 2 * h /\ f \in Nat \ {0} /\ h \in Nat \ {0}
  <2>1. w \in 0 .. LongWidth + 1 /\ w - 1 \in 0 .. LongWidth + 1
    BY WidthsAre DEF Widths
  <2>2. QED
    BY <2>1, PowerStep, PowerPositive
<1>2. /\ b \in 0 .. f - 1
      /\ v \in 0 .. f - 1 => b = v
      /\ v \in -f .. -1 => b = v + f
  <2>1. PICK m : m = f
    OBVIOUS
  <2>2. m \in Nat \ {0} /\ b = v % m
    BY <1>1, <2>1
  <2> HIDE DEF f, b
  <2>3. QED
    BY <2>1, <2>2, ModIs
<1>3. SignedOf(w, v) = IF b < h THEN b ELSE b - f
  BY DEF SignedOf
<1>4. InWord(w, v) <=> -h <= v /\ v < h
  BY DEF InWord
<1>5. InWord(w, SignedOf(w, v)) <=>
        SignedOf(w, v) \in Int /\ -h <= SignedOf(w, v) /\ SignedOf(w, v) < h
  BY DEF InWord
<1> HIDE DEF b, f, h
<1>6. QED
  BY <1>1, <1>2, <1>3, <1>4, <1>5

\* So the numbers of a word are those that stay.
LEMMA WordIs ==
  ASSUME NEW w \in Widths, NEW v \in Int
  PROVE  InWord(w, v) <=> SignedOf(w, v) = v
BY SignedIs

\* A wider word has the numbers of a narrower one.
LEMMA WiderWord ==
  ASSUME NEW w \in Widths, NEW u \in Widths, w <= u, NEW v, InWord(w, v)
  PROVE  InWord(u, v)
<1>1. w - 1 \in 0 .. LongWidth + 1 /\ u - 1 \in 0 .. LongWidth + 1 /\ w \in Int /\ u \in Int
  BY WidthsAre DEF Widths
<1>2. 2^(w - 1) \in Nat \ {0} /\ 2^(u - 1) \in Nat \ {0} /\ 2^(w - 1) <= 2^(u - 1)
  <2>1. CASE w = u
    BY <1>1, <2>1, PowerPositive
  <2>2. CASE w < u
    <3>1. 2 * 2^(w - 1) <= 2^(u - 1)
      BY <1>1, <2>2, PowersGrow
    <3>2. 2^(w - 1) \in Nat \ {0} /\ 2^(u - 1) \in Nat \ {0}
      BY <1>1, PowerPositive
    <3>3. QED
      BY <3>1, <3>2
  <2>3. QED
    BY <1>1, <2>1, <2>2
<1>3. QED
  BY <1>2 DEF InWord

\* Small numbers are in all but the smallest words.
LEMMA SmallInWord ==
  ASSUME NEW w \in Widths
  PROVE  /\ InWord(w, 0) /\ InWord(w, -1)
         /\ w > 1 => InWord(w, 1) /\ SignedOf(w, 1) = 1
         /\ SignedOf(w, 0) = 0 /\ SignedOf(w, -1) = -1
         /\ SignedOf(1, 1) = -1 /\ ~InWord(1, 1)
<1>1. w - 1 \in 0 .. LongWidth + 1 /\ w \in Nat /\ 1 \in Widths /\ LongWidth \in Nat
  BY WidthsAre DEF Widths
<1>2. 2^(w - 1) \in Nat \ {0}
  BY <1>1, PowerPositive
<1>3. InWord(w, 0) /\ InWord(w, -1)
  BY <1>2 DEF InWord
<1>4. w > 1 => InWord(w, 1)
  <2> SUFFICES ASSUME w > 1  PROVE InWord(w, 1)
    OBVIOUS
  <2>1. w - 1 \in Widths /\ (w - 1) - 1 \in 0 .. LongWidth + 1
    BY <1>1 DEF Widths
  <2>2. 2^(w - 1) = 2 * 2^((w - 1) - 1) /\ 2^((w - 1) - 1) \in Nat \ {0}
    BY <2>1, PowerStep, PowerPositive
  <2>3. 2^(w - 1) > 1
    BY <2>2
  <2>4. QED
    BY <1>2, <2>3 DEF InWord
<1>5. 2^0 = 1 /\ 2^1 = 2
  OBVIOUS
<1>6. SignedOf(1, 1) = -1
  BY <1>5 DEF SignedOf
<1>7. QED
  BY <1>1, <1>3, <1>4, <1>6, SignedIs

-----------------------------------------------------------------------------
(* Types *)

\* The width of a type is one of a word.
LEMMA WidthIs ==
  ASSUME NEW t \in IntegerTypes
  PROVE  /\ Width(t) \in {CharWidth, ShortWidth, IntWidth, LongWidth}
         /\ Width(t) \in Widths /\ Width(t) \in Nat /\ Width(t) > 1 /\ Width(t) <= LongWidth
<1>1. Width(t) \in {CharWidth, ShortWidth, IntWidth, LongWidth}
  BY DEF Width, IntegerTypes, SignedTypes, UnsignedTypes
<1>2. QED
  BY <1>1, WidthsAre

\* The types of every width.
LEMMA WidthTable ==
  /\ Width("Char") = CharWidth /\ Width("UChar") = CharWidth
  /\ Width("Short") = ShortWidth /\ Width("UShort") = ShortWidth
  /\ Width("Int") = IntWidth /\ Width("UInt") = IntWidth
  /\ Width("Long") = LongWidth /\ Width("ULong") = LongWidth
BY DEF Width

\* A conversion to a signed type is one to its word.
LEMMA SignedFits ==
  ASSUME NEW t \in SignedTypes, NEW v \in Int
  PROVE  /\ Convert(t, v) = SignedOf(Width(t), v)
         /\ Fits(t, v) <=> InWord(Width(t), v)
         /\ InWord(Width(t), Convert(t, v))
         /\ InWord(Width(t), v) => Convert(t, v) = v
<1>1. t \in IntegerTypes /\ Width(t) \in Widths
  BY WidthIs DEF IntegerTypes
<1>2. Convert(t, v) = SignedOf(Width(t), v)
  BY DEF Convert
<1>3. QED
  BY <1>1, <1>2, SignedIs DEF Fits

\* A conversion to an unsigned type is the remainder.
LEMMA UnsignedFits ==
  ASSUME NEW t \in UnsignedTypes, NEW v \in Int
  PROVE  /\ Convert(t, v) = v % 2^Width(t)
         /\ 2^Width(t) \in Nat \ {0}
         /\ Convert(t, v) \in 0 .. 2^Width(t) - 1
         /\ Fits(t, v) <=> v \in 0 .. 2^Width(t) - 1
<1>1. t \in IntegerTypes /\ t \notin SignedTypes
  BY DEF IntegerTypes, UnsignedTypes, SignedTypes
<1>2. Width(t) \in Widths /\ Width(t) \in 0 .. LongWidth + 1
  BY <1>1, WidthIs, WidthsAre DEF Widths
<1>3. Convert(t, v) = v % 2^Width(t)
  BY <1>1 DEF Convert
<1>4. PICK m : m = 2^Width(t)
  OBVIOUS
<1>5. m \in Nat \ {0}
  BY <1>2, <1>4, PowerPositive
<1>6. Fits(t, v) <=> (v % m) = v
  BY <1>3, <1>4 DEF Fits
<1>7. (v % m) \in 0 .. m - 1 /\ (v \in 0 .. m - 1 => (v % m) = v)
  BY <1>5, ModIs
<1>8. QED
  BY <1>3, <1>4, <1>5, <1>6, <1>7

\* A conversion gives a number of the type.
LEMMA ConvertFits ==
  ASSUME NEW t \in IntegerTypes, NEW v \in Int
  PROVE  Convert(t, v) \in Int /\ Fits(t, Convert(t, v))
<1>1. CASE t \in SignedTypes
  <2>1. InWord(Width(t), Convert(t, v))
    BY <1>1, SignedFits
  <2>2. Convert(t, v) \in Int
    BY <2>1 DEF InWord
  <2>3. QED
    BY <1>1, <2>1, <2>2, SignedFits
<1>2. CASE t \in UnsignedTypes
  <2>1. Convert(t, v) \in 0 .. 2^Width(t) - 1 /\ 2^Width(t) \in Nat \ {0}
    BY <1>2, UnsignedFits
  <2>2. Convert(t, v) \in Int
    BY <2>1
  <2>3. QED
    BY <1>2, <2>1, <2>2, UnsignedFits
<1>3. QED
  BY <1>1, <1>2 DEF IntegerTypes

\* The numbers of an unsigned type are in every wider word, those of the type in the next.
LEMMA UnsignedInWord ==
  ASSUME NEW t \in UnsignedTypes, NEW v \in Int, Fits(t, v), NEW w \in Widths, Width(t) < w
  PROVE  InWord(w, v) /\ v >= 0
<1>1. t \in IntegerTypes
  BY DEF IntegerTypes
<1>2. v \in 0 .. 2^Width(t) - 1 /\ 2^Width(t) \in Nat \ {0}
  BY UnsignedFits
<1>3. w - 1 \in 0 .. LongWidth + 1 /\ Width(t) \in 0 .. LongWidth + 1 /\ Width(t) <= w - 1 /\ w \in Int
  BY <1>1, WidthIs, WidthsAre DEF Widths
<1>4. 2^Width(t) <= 2^(w - 1) /\ 2^(w - 1) \in Nat \ {0}
  <2>1. CASE Width(t) = w - 1
    BY <1>2, <2>1
  <2>2. CASE Width(t) < w - 1
    <3>1. 2 * 2^Width(t) <= 2^(w - 1) /\ 2^(w - 1) \in Nat \ {0}
      BY <1>3, <2>2, PowersGrow, PowerPositive
    <3>2. QED
      BY <1>2, <3>1
  <2>3. QED
    BY <1>3, <2>1, <2>2, WidthsAre
<1>5. PICK m, n : m = 2^Width(t) /\ n = 2^(w - 1)
  OBVIOUS
<1>6. v \in 0 .. m - 1 /\ m <= n /\ m \in Nat \ {0} /\ n \in Nat \ {0}
  BY <1>2, <1>4, <1>5
<1>7. -n <= v /\ v < n /\ v >= 0
  BY <1>6
<1>8. QED
  BY <1>5, <1>7 DEF InWord

\* What the word of 64 bits holds.
LEMMA FitsLong ==
  ASSUME NEW t \in IntegerTypes, NEW v \in Int, Fits(t, v), Width(t) < LongWidth \/ t \in SignedTypes
  PROVE  InWord(LongWidth, v) /\ Fits("Long", v)
<1>1. Width(t) \in Widths /\ Width(t) <= LongWidth /\ LongWidth \in Widths
  BY WidthIs, WidthsAre
<1>2. InWord(LongWidth, v)
  <2>1. CASE t \in SignedTypes
    BY <1>1, <2>1, SignedFits, WiderWord
  <2>2. CASE t \in UnsignedTypes /\ Width(t) < LongWidth
    BY <1>1, <2>2, UnsignedInWord
  <2>3. QED
    BY <2>1, <2>2 DEF IntegerTypes
<1>3. "Long" \in SignedTypes
  BY DEF SignedTypes
<1>4. QED
  BY <1>2, <1>3, SignedFits, WidthTable

\* 0 and 1 are numbers of every type.
LEMMA BitFits ==
  ASSUME NEW t \in IntegerTypes
  PROVE  Fits(t, 0) /\ Fits(t, 1)
<1>1. CASE t \in SignedTypes
  BY <1>1, WidthIs, SmallInWord, SignedFits
<1>2. CASE t \in UnsignedTypes
  <2>1. Width(t) \in Widths /\ Width(t) - 1 \in 0 .. LongWidth + 1
    BY WidthIs, WidthsAre DEF Widths
  <2>2. 2^Width(t) = 2 * 2^(Width(t) - 1) /\ 2^(Width(t) - 1) \in Nat \ {0}
    BY <2>1, PowerStep, PowerPositive
  <2>3. 0 \in 0 .. 2^Width(t) - 1 /\ 1 \in 0 .. 2^Width(t) - 1
    BY <2>2
  <2>4. QED
    BY <1>2, <2>3, UnsignedFits
<1>3. QED
  BY <1>1, <1>2 DEF IntegerTypes

\* The type an operand is promoted to.
LEMMA PromoteIs ==
  ASSUME NEW t \in IntegerTypes
  PROVE  /\ CPromote(t) \in IntegerTypes
         /\ CPromote(t) \in {"Int", "UInt", "Long", "ULong"}
         /\ Width(CPromote(t)) = Larger(IntWidth, Width(t))
         /\ Width(t) <= Width(CPromote(t)) /\ IntWidth <= Width(CPromote(t))
         /\ Width(CPromote(t)) \in {IntWidth, LongWidth}
         /\ t \in SignedTypes => CPromote(t) \in SignedTypes
         /\ IntWidth <= Width(t) => CPromote(t) = t
<1>1. CPromote(t) \in {"Int", "UInt", "Long", "ULong"} /\ (IntWidth <= Width(t) => CPromote(t) = t)
      /\ (Width(t) < IntWidth => CPromote(t) = "Int")
  BY WidthTable, WidthsAre DEF CPromote, IntegerTypes, SignedTypes, UnsignedTypes
<1>2. Width(t) < IntWidth \/ IntWidth <= Width(t)
  BY WidthIs, WidthsAre
<1>3. Width(CPromote(t)) \in {IntWidth, LongWidth}
  BY <1>1, WidthTable
<1>4. CPromote(t) \in IntegerTypes /\ (t \in SignedTypes => CPromote(t) \in SignedTypes)
  BY <1>1, <1>2 DEF IntegerTypes, SignedTypes, UnsignedTypes
<1>5. Width(t) \in Nat
  BY WidthIs
<1>6. QED
  BY <1>1, <1>2, <1>3, <1>4, <1>5, WidthTable, WidthsAre DEF Larger

\* A promotion keeps the number.
LEMMA PromoteFits ==
  ASSUME NEW t \in IntegerTypes, NEW v \in Int, Fits(t, v)
  PROVE  Fits(CPromote(t), v)
<1>1. CASE IntWidth <= Width(t)
  BY <1>1, PromoteIs
<1>2. CASE Width(t) < IntWidth
  <2>1. CPromote(t) = "Int" /\ "Int" \in SignedTypes /\ Width("Int") = IntWidth
    BY <1>2, WidthTable DEF CPromote, SignedTypes
  <2>2. InWord(IntWidth, v)
    <3>1. Width(t) \in Widths /\ IntWidth \in Widths /\ Width(t) <= IntWidth
      BY <1>2, WidthIs, WidthsAre
    <3>2. CASE t \in SignedTypes
      BY <3>1, <3>2, SignedFits, WiderWord
    <3>3. CASE t \in UnsignedTypes
      BY <1>2, <3>1, <3>3, UnsignedInWord
    <3>4. QED
      BY <3>2, <3>3 DEF IntegerTypes
  <2>3. QED
    BY <2>1, <2>2, SignedFits
<1>3. QED
  BY <1>1, <1>2, WidthIs, WidthsAre

\* The common type of two operands, and for signed ones its width.
LEMMA CommonIs ==
  ASSUME NEW t \in IntegerTypes, NEW u \in IntegerTypes
  PROVE  /\ CCommon(t, u) \in IntegerTypes /\ CCommon(t, u) \in {CPromote(t), CPromote(u)}
         /\ t \in SignedTypes /\ u \in SignedTypes =>
              /\ CCommon(t, u) \in SignedTypes
              /\ Width(CCommon(t, u)) = Larger(Width(CPromote(t)), Width(CPromote(u)))
<1> DEFINE p == {CPromote(t), CPromote(u)}
           wide == {x \in p : \A y \in p : Width(x) >= Width(y)}
<1>1. /\ CPromote(t) \in IntegerTypes /\ CPromote(u) \in IntegerTypes
      /\ Width(CPromote(t)) \in Nat /\ Width(CPromote(u)) \in Nat
  BY PromoteIs, WidthIs
<1>2. wide # {}
  <2>1. CPromote(t) \in wide \/ CPromote(u) \in wide
    BY <1>1
  <2>2. QED
    BY <2>1
<1>3. \A x \in wide : x \in p /\ Width(x) = Larger(Width(CPromote(t)), Width(CPromote(u)))
  BY <1>1 DEF Larger
<1>4. CASE wide \subseteq SignedTypes
  <2>1. CCommon(t, u) = CHOOSE x \in wide : TRUE
    BY <1>4 DEF CCommon
  <2>2. CCommon(t, u) \in wide
    BY <1>2, <2>1
  <2>3. QED
    BY <1>1, <1>3, <1>4, <2>2
<1>5. CASE ~(wide \subseteq SignedTypes)
  <2>1. CCommon(t, u) = CHOOSE x \in wide : x \in UnsignedTypes
    BY <1>5 DEF CCommon
  <2>2. \E x \in wide : x \in UnsignedTypes
    BY <1>1, <1>5 DEF IntegerTypes
  <2>3. CCommon(t, u) \in wide
    BY <2>1, <2>2
  <2>4. ~(t \in SignedTypes /\ u \in SignedTypes)
    BY <1>5, PromoteIs
  <2>5. QED
    BY <1>1, <2>3, <2>4
<1>6. QED
  BY <1>4, <1>5

-----------------------------------------------------------------------------
(* Sums of powers *)

\* The number that MapThenSumSet adds up for a set of places.
Total(s, g) ==
    IF s = {} THEN 0 ELSE LET x == CHOOSE y \in s : TRUE IN 2^x + g[s \ {x}]

\* The recursion has a solution for sets of up to n places.
LEMMA TotalsUpTo ==
  ASSUME NEW S, S \subseteq 0 .. LongWidth, IsFiniteSet(S), NEW n \in Nat
  PROVE  LET Small(k) == {s \in SUBSET S : Cardinality(s) <= k}
         IN  \E g \in [Small(n) -> Nat] : \A s \in Small(n) : g[s] = Total(s, g)
<1> DEFINE Small(k) == {s \in SUBSET S : Cardinality(s) <= k}
           Good(k) == \E g \in [Small(k) -> Nat] : \A s \in Small(k) : g[s] = Total(s, g)
           Bad == {k \in Nat : ~Good(k)}
<1>1. \A s \in SUBSET S : IsFiniteSet(s) /\ Cardinality(s) \in Nat /\ (Cardinality(s) = 0 <=> s = {})
  BY FS_Subset, FS_CardinalityType, FS_EmptySet
<1>2. \A s \in SUBSET S : s # {} =>
        LET x == CHOOSE y \in s : TRUE
        IN  x \in s /\ Cardinality(s \ {x}) = Cardinality(s) - 1 /\ s \ {x} \in SUBSET S /\ 2^x \in Nat
  <2> SUFFICES ASSUME NEW s \in SUBSET S, s # {}, NEW x, x = CHOOSE y \in s : TRUE
               PROVE  x \in s /\ Cardinality(s \ {x}) = Cardinality(s) - 1 /\ s \ {x} \in SUBSET S /\ 2^x \in Nat
    OBVIOUS
  <2>1. x \in s
    OBVIOUS
  <2>2. Cardinality(s \ {x}) = Cardinality(s) - 1
    BY <1>1, <2>1, FS_RemoveElement
  <2>3. x \in 0 .. LongWidth + 1
    <3>1. x \in 0 .. LongWidth
      BY <2>1
    <3>2. QED
      BY <3>1, WidthsAre
  <2>4. 2^x \in Nat
    BY <2>3, PowerPositive
  <2>5. QED
    BY <2>1, <2>2, <2>4
<1>3. Good(0)
  <2>1. \A s \in Small(0) : s = {}
    BY <1>1
  <2>2. PICK g : g = [s \in Small(0) |-> 0]
    OBVIOUS
  <2>3. g \in [Small(0) -> Nat] /\ \A s \in Small(0) : g[s] = Total(s, g)
    BY <2>1, <2>2 DEF Total
  <2>4. QED
    BY <2>3
<1>4. ASSUME NEW k \in Nat, Good(k)
      PROVE  Good(k + 1)
  <2>1. PICK g \in [Small(k) -> Nat] : \A s \in Small(k) : g[s] = Total(s, g)
    BY <1>4
  <2>2. PICK h : h = [s \in Small(k + 1) |-> Total(s, g)]
    OBVIOUS
  <2>3. \A s \in Small(k + 1) : h[s] = Total(s, g) /\ Total(s, g) \in Nat
    <3> SUFFICES ASSUME NEW s \in Small(k + 1)
                 PROVE  h[s] = Total(s, g) /\ Total(s, g) \in Nat
      OBVIOUS
    <3>1. CASE s = {}
      BY <2>2, <3>1 DEF Total
    <3>2. CASE s # {}
      <4>1. PICK x : x = CHOOSE y \in s : TRUE
        OBVIOUS
      <4>2. s \ {x} \in Small(k) /\ 2^x \in Nat
        BY <1>1, <1>2, <3>2, <4>1
      <4>3. Total(s, g) = 2^x + g[s \ {x}]
        BY <3>2, <4>1 DEF Total
      <4>4. QED
        BY <2>1, <2>2, <4>2, <4>3
    <3>3. QED
      BY <3>1, <3>2
  <2>4. \A s \in Small(k) : s \in Small(k + 1) /\ h[s] = g[s]
    <3>1. \A s \in Small(k) : s \in Small(k + 1)
      BY <1>1
    <3>2. \A s \in Small(k) : g[s] = Total(s, g)
      BY <2>1
    <3> HIDE DEF Small
    <3>3. QED
      BY <2>3, <3>1, <3>2
  <2>5. \A s \in Small(k + 1) : h[s] = Total(s, h)
    <3> SUFFICES ASSUME NEW s \in Small(k + 1)
                 PROVE  h[s] = Total(s, h)
      OBVIOUS
    <3>1. CASE s = {}
      BY <2>3, <3>1 DEF Total
    <3>2. CASE s # {}
      <4>1. PICK x : x = CHOOSE y \in s : TRUE
        OBVIOUS
      <4>2. s \ {x} \in Small(k)
        BY <1>1, <1>2, <3>2, <4>1
      <4>3. Total(s, g) = 2^x + g[s \ {x}] /\ Total(s, h) = 2^x + h[s \ {x}]
        BY <3>2, <4>1 DEF Total
      <4>4. h[s \ {x}] = g[s \ {x}]
        BY <2>4, <4>2
      <4>5. QED
        BY <2>3, <4>3, <4>4
    <3>3. QED
      BY <3>1, <3>2
  <2>6. h \in [Small(k + 1) -> Nat]
    BY <2>2, <2>3
  <2>7. QED
    BY <2>5, <2>6
<1>5. Bad = {}
  <2> SUFFICES ASSUME Bad # {}  PROVE FALSE
    OBVIOUS
  <2>1. Bad \subseteq Nat
    OBVIOUS
  <2> HIDE DEF Good
  <2>2. PICK m \in Bad : \A k \in Bad : m <= k
    <3> HIDE DEF Bad
    <3>1. QED
      BY <2>1, NatSetMin
  <2>3. m \in Nat /\ ~Good(m) /\ m # 0
    BY <1>3, <2>2
  <2>4. m - 1 \in Nat /\ m - 1 \notin Bad
    <3>1. m - 1 \in Nat /\ ~(m <= m - 1)
      BY <2>3
    <3> HIDE DEF Bad
    <3>2. QED
      BY <2>2, <3>1
  <2>5. Good(m - 1)
    BY <2>4
  <2>6. Good((m - 1) + 1)
    BY <1>4, <2>4, <2>5
  <2>7. (m - 1) + 1 = m
    BY <2>3
  <2>8. QED
    BY <2>3, <2>6, <2>7
<1>6. QED
  <2>1. Good(n)
    <3> HIDE DEF Good
    <3>1. QED
      BY <1>5
  <2>2. QED
    BY <2>1

\* A solution has numbers for values.
LEMMA TotalsAreNumbers ==
  ASSUME NEW S, S \subseteq 0 .. LongWidth, IsFiniteSet(S), NEW g,
         \A s \in SUBSET S : g[s] = Total(s, g)
  PROVE  \A s \in SUBSET S : g[s] \in Nat
<1> DEFINE Bad == {Cardinality(s) : s \in {u \in SUBSET S : g[u] \notin Nat}}
<1>1. \A s \in SUBSET S : IsFiniteSet(s) /\ Cardinality(s) \in Nat
  BY FS_Subset, FS_CardinalityType
<1>2. SUFFICES ASSUME Bad # {}  PROVE FALSE
  OBVIOUS
<1>3. Bad \subseteq Nat
  BY <1>1
<1>4. PICK m \in Bad : \A k \in Bad : m <= k
  <2> HIDE DEF Bad
  <2>1. QED
    BY <1>2, <1>3, NatSetMin
<1>5. PICK s \in SUBSET S : g[s] \notin Nat /\ m = Cardinality(s)
  BY <1>4
<1>6. s # {}
  <2>1. s = {} => g[s] = 0
    BY DEF Total
  <2>2. QED
    BY <1>5, <2>1
<1>7. PICK x : x = CHOOSE y \in s : TRUE
  OBVIOUS
<1>8. x \in s /\ g[s] = 2^x + g[s \ {x}]
  BY <1>6, <1>7 DEF Total
<1>9. x \in 0 .. LongWidth + 1 /\ 2^x \in Nat
  BY <1>8, WidthsAre, PowerPositive
<1>10. s \ {x} \in SUBSET S /\ Cardinality(s \ {x}) = Cardinality(s) - 1
  BY <1>1, <1>8, FS_RemoveElement
<1>11. g[s \ {x}] \notin Nat
  BY <1>5, <1>8, <1>9
<1>12. Cardinality(s \ {x}) \in Bad
  BY <1>10, <1>11
<1>13. m <= Cardinality(s \ {x})
  BY <1>4, <1>12
<1>14. QED
  BY <1>1, <1>5, <1>10, <1>13

\* The sum of powers is a number.
LEMMA OfOnesIs ==
  ASSUME NEW S, S \subseteq 0 .. LongWidth
  PROVE  OfOnes(S) \in Int
<1>1. IsFiniteSet(S) /\ Cardinality(S) \in Nat
  <2>1. IsFiniteSet(0 .. LongWidth)
    BY WidthsAre, FS_Interval
  <2>2. QED
    BY <2>1, FS_Subset, FS_CardinalityType
<1> DEFINE Sum(g) == [s \in SUBSET S |-> IF s = {} THEN 0
                        ELSE LET x == CHOOSE y \in s : TRUE IN 2^x + g[s \ {x}]]
           it == CHOOSE g : g = Sum(g)
<1>2. OfOnes(S) = SignedOf(LongWidth + 1, it[S])
  BY DEF OfOnes, MapThenSumSet, MapThenFoldSet
<1>3. \E g : g = Sum(g)
  <2>1. \A s \in SUBSET S : Cardinality(s) <= Cardinality(S)
    BY <1>1, FS_Subset
  <2>2. PICK g \in [{s \in SUBSET S : Cardinality(s) <= Cardinality(S)} -> Nat] :
          \A s \in {s \in SUBSET S : Cardinality(s) <= Cardinality(S)} : g[s] = Total(s, g)
    BY <1>1, TotalsUpTo
  <2>3. g \in [SUBSET S -> Nat] /\ \A s \in SUBSET S : g[s] = Total(s, g)
    BY <2>1, <2>2
  <2>4. g = [s \in SUBSET S |-> Total(s, g)]
    BY <2>3
  <2>5. QED
    BY ZenonT(60), <2>4 DEF Total
<1>4. it = Sum(it)
  BY <1>3
<1>5. \A s \in SUBSET S : it[s] = Total(s, it)
  <2> HIDE DEF it
  <2>1. QED
    BY <1>4 DEF Total
<1>6. it[S] \in Nat
  <2> HIDE DEF it
  <2>1. QED
    BY <1>1, <1>5, TotalsAreNumbers
<1>7. QED
  <2> HIDE DEF it
  <2>1. QED
    BY SMTT(60), <1>2, <1>6, WidthsAre, SignedIs DEF InWord

-----------------------------------------------------------------------------
(* Operators on numbers *)

\* A quotient of numbers is one.
LEMMA QuotientIs ==
  ASSUME NEW a \in Int, NEW b \in Int, b # 0
  PROVE  Quotient(a, b) \in Int
<1>1. Magnitude(a) \in Nat /\ Magnitude(b) \in Nat \ {0}
  BY DEF Magnitude
<1>2. PICK x, y : x = Magnitude(a) /\ y = Magnitude(b)
  OBVIOUS
<1>3. (x \div y) \in Int
  BY <1>1, <1>2
<1>4. QED
  BY <1>2, <1>3 DEF Quotient

\* An operator that is applicable in a word gives a number.
LEMMA ApplyIs ==
  ASSUME NEW op \in ValueOps, NEW a \in Int, NEW b \in Int, NEW w \in Widths,
         Applicable(op, a, b, w)
  PROVE  Apply(op, a, b) \in Int
<1>1. CASE op \in {"add", "sub", "mul"}
  BY <1>1 DEF Apply
<1>2. CASE op \in {"div", "mod"}
  <2>1. b # 0
    BY <1>2 DEF Applicable
  <2>2. Quotient(a, b) \in Int
    BY <2>1, QuotientIs
  <2>3. PICK q \in Int : q = Quotient(a, b)
    BY <2>2
  <2>4. b * q \in Int /\ a - b * q \in Int
    BY <2>3
  <2>5. QED
    BY <1>2, <2>3, <2>4 DEF Apply
<1>3. CASE op \in Bitwise
  <2>2. Ones(a) \subseteq 0 .. LongWidth /\ Ones(b) \subseteq 0 .. LongWidth
    BY DEF Ones
  <2>3. /\ Ones(a) \cap Ones(b) \subseteq 0 .. LongWidth /\ Ones(a) \cup Ones(b) \subseteq 0 .. LongWidth
        /\ (Ones(a) \cup Ones(b)) \ (Ones(a) \cap Ones(b)) \subseteq 0 .. LongWidth
    BY <2>2
  <2>4. /\ OfOnes(Ones(a) \cap Ones(b)) \in Int /\ OfOnes(Ones(a) \cup Ones(b)) \in Int
        /\ OfOnes((Ones(a) \cup Ones(b)) \ (Ones(a) \cap Ones(b))) \in Int
    BY <2>3, OfOnesIs
  <2>5. QED
    BY <1>3, <2>4 DEF Apply, Bitwise
<1>4. CASE op \in Shifts
  <2>1. b \in 0 .. LongWidth + 1
    <3>1. b \in 0 .. w - 1
      BY <1>4 DEF Applicable
    <3>2. QED
      BY <3>1, WidthsAre DEF Widths
  <2>2. 2^b \in Nat \ {0}
    BY <2>1, PowerPositive
  <2>3. PICK m \in Nat \ {0} : m = 2^b
    BY <2>2
  <2>4. a * m \in Int /\ (a \div m) \in Int
    OBVIOUS
  <2>5. QED
    BY <1>4, <2>3, <2>4 DEF Apply, Shifts
<1>5. QED
  BY <1>1, <1>2, <1>3, <1>4 DEF ValueOps, Arithmetic

\* What is applicable to numbers of a word is so in every wider word.
LEMMA ApplicableWider ==
  ASSUME NEW op, NEW a, NEW b \in Int, NEW w \in Widths, NEW u \in Widths, w <= u,
         InWord(w, a), Applicable(op, a, b, w)
  PROVE  Applicable(op, a, b, u)
<1>1. op \in Shifts => b \in 0 .. u - 1
  BY DEF Applicable, Widths
<1>2. CASE w = u
  BY <1>2
<1>3. CASE w < u
  <2>1. w - 1 \in 0 .. LongWidth + 1 /\ u - 1 \in 0 .. LongWidth + 1 /\ w - 1 < u - 1
    BY <1>3, WidthsAre DEF Widths
  <2>2. /\ 2^(w - 1) \in Nat \ {0} /\ 2^(u - 1) \in Nat \ {0} /\ 2 * 2^(w - 1) <= 2^(u - 1)
    BY <2>1, PowersGrow, PowerPositive
  <2>3. a # -(2^(u - 1))
    BY <2>2 DEF InWord
  <2>4. QED
    BY <1>1, <2>3 DEF Applicable
<1>4. QED
  BY <1>2, <1>3 DEF Widths

-----------------------------------------------------------------------------
(* Values of LLVM *)

\* The widths that values may have.
ValueWidths == {1, CharWidth, ShortWidth, IntWidth, LongWidth}

\* A value has its type.
IrTyped(x) ==
    /\ x \in [kind : Kinds, w : Nat, v : Int, folded : BOOLEAN]
    /\ x.w \in ValueWidths \cup {0}
    /\ Usable(x) => x.w \in ValueWidths
    /\ x.kind = "value" => InWord(x.w, x.v)

\* The widths of values are those of words.
LEMMA ValueWidthIs ==
  ASSUME NEW w \in ValueWidths
  PROVE  w \in Widths /\ w \in Nat /\ (w # 1 => w > 1)
BY WidthsAre DEF ValueWidths

\* What the makers of values make.
LEMMA MadeTyped ==
  /\ IrTyped(Broken) /\ ~Usable(Broken) /\ IrTyped(NoValue) /\ ~Usable(NoValue)
  /\ \A w \in ValueWidths : IrTyped(Poison(w)) /\ Usable(Poison(w)) /\ Poison(w).w = w
                            /\ Poison(w).kind = "poison" /\ Poison(w).folded = FALSE
  /\ \A w \in ValueWidths, v \in Int, f \in BOOLEAN :
       /\ IrTyped(Value(w, v, f)) /\ Usable(Value(w, v, f)) /\ Value(w, v, f).kind = "value"
       /\ Value(w, v, f).w = w /\ Value(w, v, f).folded = f
       /\ Value(w, v, f).v = SignedOf(w, v)
       /\ InWord(w, v) => Value(w, v, f).v = v
<1>1. IrTyped(Broken) /\ ~Usable(Broken)
  BY DEF Broken, IrTyped, Usable, Kinds
<1>2. IrTyped(NoValue) /\ ~Usable(NoValue)
  <2>1. PICK b : b = Broken
    OBVIOUS
  <2>2. b = [kind |-> "broken", w |-> 0, v |-> 0, folded |-> FALSE]
    BY <2>1 DEF Broken
  <2>3. b \in [kind : Kinds, w : Nat, v : Int, folded : BOOLEAN] /\ b.w = 0
    BY <2>2 DEF Kinds
  <2>4. /\ NoValue \in [kind : Kinds, w : Nat, v : Int, folded : BOOLEAN]
        /\ NoValue.kind = "none" /\ NoValue.w = 0
    BY <2>1, <2>3 DEF NoValue, Kinds
  <2>5. QED
    BY <2>4 DEF IrTyped, Usable, Kinds
<1>3. ASSUME NEW w \in ValueWidths
      PROVE  IrTyped(Poison(w)) /\ Usable(Poison(w)) /\ Poison(w).w = w /\ Poison(w).kind = "poison"
             /\ Poison(w).folded = FALSE
  <2>1. /\ Poison(w) \in [kind : Kinds, w : Nat, v : Int, folded : BOOLEAN]
        /\ Poison(w).kind = "poison" /\ Poison(w).w = w /\ Poison(w).folded = FALSE
    <3>1. PICK b : b = Broken
      OBVIOUS
    <3>2. b = [kind |-> "broken", w |-> 0, v |-> 0, folded |-> FALSE]
      BY <3>1 DEF Broken
    <3>3. b \in [kind : Kinds, w : Nat, v : Int, folded : BOOLEAN] /\ b.folded = FALSE
      BY <3>2 DEF Kinds
    <3>4. QED
      BY <3>1, <3>3, ValueWidthIs DEF Poison, Kinds
  <2>2. QED
    BY <2>1, ValueWidthIs DEF IrTyped, Usable, Kinds
<1>4. ASSUME NEW w \in ValueWidths, NEW v \in Int, NEW f \in BOOLEAN
      PROVE  /\ IrTyped(Value(w, v, f)) /\ Usable(Value(w, v, f)) /\ Value(w, v, f).kind = "value"
             /\ Value(w, v, f).w = w /\ Value(w, v, f).folded = f
             /\ Value(w, v, f).v = SignedOf(w, v)
             /\ InWord(w, v) => Value(w, v, f).v = v
  <2>1. w \in Widths /\ w \in Nat
    BY ValueWidthIs
  <2>2. InWord(w, SignedOf(w, v)) /\ (InWord(w, v) => SignedOf(w, v) = v)
    BY <2>1, SignedIs
  <2>3. SignedOf(w, v) \in Int
    BY <2>2 DEF InWord
  <2>4. PICK s \in Int : s = SignedOf(w, v)
    BY <2>3
  <2>5. Value(w, v, f) = [kind |-> "value", w |-> w, v |-> s, folded |-> f]
    BY <2>4 DEF Value
  <2>6. QED
    BY <2>1, <2>2, <2>4, <2>5 DEF IrTyped, Usable, Kinds
<1>5. QED
  BY <1>1, <1>2, <1>3, <1>4

\* Conversions keep the kind; one to a wider word keeps the number.
LEMMA IntCastIs ==
  ASSUME NEW x, NEW w \in ValueWidths, IrTyped(x)
  PROVE  /\ IrTyped(IntCast(x, w)) /\ (Usable(IntCast(x, w)) <=> Usable(x))
         /\ Usable(x) =>
              /\ IntCast(x, w).kind = x.kind /\ IntCast(x, w).w = w
              /\ x.kind = "value" =>
                   /\ IntCast(x, w).v = SignedOf(w, x.v)
                   /\ x.w <= w => IntCast(x, w).v = x.v
                   /\ IntCast(x, w).folded = x.folded
<1>1. x.v \in Int /\ x.folded \in BOOLEAN /\ x.w \in Nat /\ x.kind \in Kinds
  BY DEF IrTyped
<1>2. CASE ~Usable(x)
  BY <1>2, MadeTyped DEF IntCast, Usable
<1>3. CASE x.kind = "poison"
  BY <1>3, MadeTyped DEF IntCast, Usable
<1>4. CASE x.kind = "value"
  <2>1. Usable(x) /\ IntCast(x, w) = Value(w, x.v, x.folded)
    BY <1>4 DEF IntCast, Usable
  <2>2. x.w <= w => InWord(w, x.v)
    BY <1>4, <2>1, ValueWidthIs, WiderWord DEF IrTyped
  <2>3. QED
    BY <1>1, <1>4, <2>1, <2>2, MadeTyped
<1>5. QED
  BY <1>2, <1>3, <1>4 DEF Usable

\* Conversions of assignments do, too.
LEMMA AssignCastIs ==
  ASSUME NEW x, NEW w \in ValueWidths, IrTyped(x)
  PROVE  /\ IrTyped(AssignCast(x, w)) /\ (Usable(AssignCast(x, w)) <=> Usable(x))
         /\ Usable(x) =>
              /\ AssignCast(x, w).kind = x.kind /\ AssignCast(x, w).w = w
              /\ x.kind = "value" =>
                   /\ AssignCast(x, w).v = SignedOf(w, x.v)
                   /\ x.w <= w => AssignCast(x, w).v = x.v
                   /\ AssignCast(x, w).folded = x.folded
<1>1. CASE Usable(x) /\ x.w # w
  BY <1>1, IntCastIs DEF AssignCast
<1>2. CASE ~(Usable(x) /\ x.w # w)
  <2>1. AssignCast(x, w) = x
    BY <1>2 DEF AssignCast
  <2>2. Usable(x) /\ x.kind = "value" => x.w = w /\ SignedOf(w, x.v) = x.v
    BY <1>2, ValueWidthIs, SignedIs DEF IrTyped, InWord
  <2>3. QED
    BY <1>2, <2>1, <2>2
<1>3. QED
  BY <1>1, <1>2

\* The width of an operand after the promotions.
Promoted(w) == Larger(IntWidth, w)

\* The conversions of the operands have their types; where the left one is not
\* wider than the right one, both get the width of C, and their numbers stay.
LEMMA ArithCastIs ==
  ASSUME NEW l, NEW r, IrTyped(l), IrTyped(r)
  PROVE  LET p == BinaryArithCast(l, r)
         IN  /\ IrTyped(p[1]) /\ IrTyped(p[2])
             /\ (Usable(p[1]) <=> Usable(l)) /\ (Usable(p[2]) <=> Usable(r))
             /\ Usable(l) /\ Usable(r) /\ Promoted(l.w) <= Promoted(r.w) =>
                  /\ p[1].w = Promoted(r.w) /\ p[2].w = Promoted(r.w)
                  /\ p[1].kind = l.kind /\ p[2].kind = r.kind
                  /\ l.kind = "value" => p[1].v = l.v /\ p[1].folded = l.folded
                  /\ r.kind = "value" => p[2].v = r.v /\ p[2].folded = r.folded
<1> DEFINE t == Larger(IntWidth, r.w)
           p == BinaryArithCast(l, r)
<1>1. l.w \in Nat /\ r.w \in Nat /\ IntWidth \in Nat
  BY WidthsAre DEF IrTyped
<1>2. /\ p[1] = IF l.w < IntWidth \/ l.w < r.w THEN IntCast(l, t) ELSE l
      /\ p[2] = IF r.w < IntWidth \/ r.w < l.w THEN IntCast(r, t) ELSE r
  BY DEF BinaryArithCast
<1>3. t \in ValueWidths /\ IntWidth <= t /\ r.w <= t /\ t \in {IntWidth, r.w}
  BY <1>1 DEF IrTyped, Larger, ValueWidths
<1>4. /\ IrTyped(IntCast(l, t)) /\ IrTyped(IntCast(r, t))
      /\ (Usable(IntCast(l, t)) <=> Usable(l)) /\ (Usable(IntCast(r, t)) <=> Usable(r))
  BY <1>3, IntCastIs
<1>5. ASSUME Usable(l), Usable(r), Promoted(l.w) <= Promoted(r.w)
      PROVE  /\ p[1].w = t /\ p[2].w = t /\ p[1].kind = l.kind /\ p[2].kind = r.kind
             /\ l.kind = "value" => p[1].v = l.v /\ p[1].folded = l.folded
             /\ r.kind = "value" => p[2].v = r.v /\ p[2].folded = r.folded
  <2>1. l.w <= t
    BY <1>1, <1>5 DEF Promoted, Larger
  <2>2. ~(l.w < IntWidth \/ l.w < r.w) => l.w = t
    BY <1>1, <1>3, <2>1
  <2>3. ~(r.w < IntWidth \/ r.w < l.w) => r.w = t
    BY <1>1, <1>3
  <2>4. /\ IntCast(l, t).w = t /\ IntCast(l, t).kind = l.kind
        /\ l.kind = "value" => IntCast(l, t).v = l.v /\ IntCast(l, t).folded = l.folded
    BY <1>3, <1>5, <2>1, IntCastIs
  <2>5. /\ IntCast(r, t).w = t /\ IntCast(r, t).kind = r.kind
        /\ r.kind = "value" => IntCast(r, t).v = r.v /\ IntCast(r, t).folded = r.folded
    BY <1>3, <1>5, IntCastIs
  <2> HIDE DEF p, t
  <2>6. QED
    BY <1>2, <2>2, <2>3, <2>4, <2>5
<1>6. QED
  BY <1>2, <1>4, <1>5 DEF Promoted

\* A test against zero keeps the kind; its number is minus the truth.
LEMMA BoolCastIs ==
  ASSUME NEW x, IrTyped(x)
  PROVE  /\ IrTyped(BoolCast(x)) /\ (Usable(BoolCast(x)) <=> Usable(x))
         /\ Usable(x) =>
              /\ BoolCast(x).kind = x.kind /\ BoolCast(x).w = 1
              /\ x.kind = "value" =>
                   /\ BoolCast(x).v = -Truth(x.v # 0)
                   /\ BoolCast(x).folded = x.folded
<1>1. x.v \in Int /\ x.folded \in BOOLEAN /\ x.w \in Nat /\ x.kind \in Kinds /\ 1 \in ValueWidths
  BY DEF IrTyped, ValueWidths
<1>2. CASE ~Usable(x)
  BY <1>2, MadeTyped DEF BoolCast
<1>3. CASE x.kind = "poison"
  BY <1>1, <1>3, MadeTyped DEF BoolCast, Usable
<1>4. CASE x.kind = "value"
  <2>1. Usable(x) /\ InWord(x.w, x.v) /\ x.w \in ValueWidths
    BY <1>4 DEF Usable, IrTyped
  <2>2. CASE x.w > 1
    <3>1. BoolCast(x) = Value(1, Truth(x.v # 0), x.folded)
      BY <1>4, <2>1, <2>2 DEF BoolCast
    <3>2. Truth(x.v # 0) \in Int /\ SignedOf(1, Truth(x.v # 0)) = -Truth(x.v # 0)
      BY SmallInWord, WidthsAre DEF Truth
    <3>3. QED
      BY <1>1, <1>4, <2>1, <3>1, <3>2, MadeTyped
  <2>3. CASE ~(x.w > 1)
    <3>1. BoolCast(x) = x /\ x.w = 1
      BY <1>1, <1>4, <2>1, <2>3, ValueWidthIs DEF BoolCast
    <3>2. x.v = -Truth(x.v # 0)
      <4>1. 2^0 = 1
        OBVIOUS
      <4>2. x.v = -1 \/ x.v = 0
        BY <1>1, <2>1, <3>1, <4>1 DEF InWord
      <4>3. QED
        BY <4>2 DEF Truth
    <3>3. QED
      BY <1>4, <2>1, <3>1, <3>2
  <2>4. QED
    BY <2>2, <2>3
<1>5. QED
  BY <1>2, <1>3, <1>4 DEF Usable

\* The operator has this result, with nsw and without it.
Exact(op, a, b, w) == Applicable(op, a, b, w) /\ InWord(w, Apply(op, a, b))

\* Arithmetic at one width: it has its type, and a number if the operator has a result.
LEMMA ArithmeticIs ==
  ASSUME NEW op \in ValueOps, NEW l, NEW r, NEW nsw \in BOOLEAN, IrTyped(l), IrTyped(r)
  PROVE  LET g == GenArithmetic(op, l, r, nsw)
         IN  /\ IrTyped(g)
             /\ Usable(l) /\ Usable(r) /\ Promoted(l.w) <= Promoted(r.w) =>
                  /\ Usable(g) /\ g.w = Promoted(r.w)
                  /\ l.kind = "value" /\ r.kind = "value" /\ Exact(op, l.v, r.v, Promoted(r.w)) =>
                       /\ g.kind = "value" /\ g.v = Apply(op, l.v, r.v)
                       /\ g.folded = (l.folded /\ r.folded)
<1> DEFINE g == GenArithmetic(op, l, r, nsw)
<1>1. PICK p : p = BinaryArithCast(l, r)
  OBVIOUS
<1>2. /\ IrTyped(p[1]) /\ IrTyped(p[2])
      /\ (Usable(p[1]) <=> Usable(l)) /\ (Usable(p[2]) <=> Usable(r))
      /\ Usable(l) /\ Usable(r) /\ Promoted(l.w) <= Promoted(r.w) =>
           /\ p[1].w = Promoted(r.w) /\ p[2].w = Promoted(r.w)
           /\ p[1].kind = l.kind /\ p[2].kind = r.kind
           /\ l.kind = "value" => p[1].v = l.v /\ p[1].folded = l.folded
           /\ r.kind = "value" => p[2].v = r.v /\ p[2].folded = r.folded
  BY <1>1, ArithCastIs
<1>3. PICK x, y : x = p[1] /\ y = p[2]
  OBVIOUS
<1>4. PICK ok \in BOOLEAN : ok <=>
        /\ Applicable(op, x.v, y.v, x.w)
        /\ nsw /\ op \in {"add", "sub", "mul"} /\ ~(x.folded /\ y.folded)
             => SignedOf(x.w, Apply(op, x.v, y.v)) = Apply(op, x.v, y.v)
  OBVIOUS
<1>5. g = IF ~(Usable(x) /\ Usable(y) /\ x.w = y.w) THEN Broken
          ELSE IF "poison" \in {x.kind, y.kind} \/ ~ok THEN Poison(x.w)
          ELSE Value(x.w, Apply(op, x.v, y.v), x.folded /\ y.folded)
  BY <1>1, <1>3, <1>4 DEF GenArithmetic, Instruction
<1> HIDE DEF g
<1>6. /\ IrTyped(x) /\ IrTyped(y) /\ x.v \in Int /\ y.v \in Int /\ x.w \in Nat /\ y.w \in Nat
      /\ x.folded \in BOOLEAN /\ y.folded \in BOOLEAN /\ x.kind \in Kinds /\ y.kind \in Kinds
  BY <1>2, <1>3 DEF IrTyped
<1>7. ASSUME Usable(x), Usable(y), x.w = y.w
      PROVE  /\ IrTyped(g) /\ Usable(g) /\ g.w = x.w
             /\ x.kind = "value" /\ y.kind = "value" /\ ok =>
                  g.kind = "value" /\ g.v = SignedOf(x.w, Apply(op, x.v, y.v))
                  /\ g.folded = (x.folded /\ y.folded)
  <2>1. x.w \in ValueWidths /\ x.w \in Widths
    BY <1>6, <1>7, ValueWidthIs DEF IrTyped
  <2>2. CASE "poison" \in {x.kind, y.kind} \/ ~ok
    BY <1>5, <1>7, <2>1, <2>2, MadeTyped
  <2>3. CASE ~("poison" \in {x.kind, y.kind} \/ ~ok)
    <3>1. Apply(op, x.v, y.v) \in Int
      BY <1>4, <1>6, <2>1, <2>3, ApplyIs
    <3>2. PICK a \in Int : a = Apply(op, x.v, y.v)
      BY <3>1
    <3>3. PICK f \in BOOLEAN : f = (x.folded /\ y.folded)
      OBVIOUS
    <3>4. g = Value(x.w, a, f)
      BY <1>5, <1>7, <2>3, <3>2, <3>3
    <3>5. PICK w \in ValueWidths : w = x.w
      BY <2>1
    <3>6. /\ IrTyped(Value(w, a, f)) /\ Usable(Value(w, a, f)) /\ Value(w, a, f).kind = "value"
          /\ Value(w, a, f).w = w /\ Value(w, a, f).folded = f /\ Value(w, a, f).v = SignedOf(w, a)
      BY MadeTyped
    <3>7. QED
      BY <3>2, <3>3, <3>4, <3>5, <3>6
  <2>4. QED
    BY <2>2, <2>3
<1>8. IrTyped(g)
  <2>1. CASE Usable(x) /\ Usable(y) /\ x.w = y.w
    BY <1>7, <2>1
  <2>2. CASE ~(Usable(x) /\ Usable(y) /\ x.w = y.w)
    BY <1>5, <2>2, MadeTyped
  <2>3. QED
    BY <2>1, <2>2
<1>9. ASSUME Usable(l), Usable(r), Promoted(l.w) <= Promoted(r.w)
      PROVE  /\ Usable(g) /\ g.w = Promoted(r.w)
             /\ l.kind = "value" /\ r.kind = "value" /\ Exact(op, l.v, r.v, Promoted(r.w)) =>
                  /\ g.kind = "value" /\ g.v = Apply(op, l.v, r.v)
                  /\ g.folded = (l.folded /\ r.folded)
  <2>1. /\ Usable(x) /\ Usable(y) /\ x.w = Promoted(r.w) /\ y.w = Promoted(r.w)
        /\ x.kind = l.kind /\ y.kind = r.kind
        /\ l.kind = "value" => x.v = l.v /\ x.folded = l.folded
        /\ r.kind = "value" => y.v = r.v /\ y.folded = r.folded
    BY <1>2, <1>3, <1>9
  <2>2. ASSUME l.kind = "value", r.kind = "value", Exact(op, l.v, r.v, Promoted(r.w))
        PROVE  ok /\ SignedOf(x.w, Apply(op, x.v, y.v)) = Apply(op, x.v, y.v)
    <3>1. Applicable(op, x.v, y.v, x.w) /\ InWord(x.w, Apply(op, x.v, y.v))
      BY <2>1, <2>2 DEF Exact
    <3>2. x.w \in Widths /\ Apply(op, x.v, y.v) \in Int
      BY <1>6, <2>1, <3>1, ValueWidthIs DEF IrTyped, InWord
    <3>3. SignedOf(x.w, Apply(op, x.v, y.v)) = Apply(op, x.v, y.v)
      BY <3>1, <3>2, SignedIs
    <3>4. QED
      BY <1>4, <3>1, <3>3
  <2>3. QED
    BY <1>7, <2>1, <2>2
<1>10. QED
  BY <1>8, <1>9 DEF g

\* A comparison at one width.
LEMMA ComparisonIs ==
  ASSUME NEW op \in Comparisons, NEW l, NEW r, IrTyped(l), IrTyped(r)
  PROVE  LET g == GenComparison(op, l, r)
         IN  /\ IrTyped(g)
             /\ Usable(l) /\ Usable(r) /\ Promoted(l.w) <= Promoted(r.w) =>
                  /\ Usable(g) /\ g.w = 1
                  /\ l.kind = "value" /\ r.kind = "value" =>
                       /\ g.kind = "value" /\ g.v = -Truth(Holds(op, l.v, r.v))
                       /\ g.folded = (l.folded /\ r.folded)
<1> DEFINE g == GenComparison(op, l, r)
<1>1. PICK p : p = BinaryArithCast(l, r)
  OBVIOUS
<1>2. /\ IrTyped(p[1]) /\ IrTyped(p[2])
      /\ (Usable(p[1]) <=> Usable(l)) /\ (Usable(p[2]) <=> Usable(r))
      /\ Usable(l) /\ Usable(r) /\ Promoted(l.w) <= Promoted(r.w) =>
           /\ p[1].w = Promoted(r.w) /\ p[2].w = Promoted(r.w)
           /\ p[1].kind = l.kind /\ p[2].kind = r.kind
           /\ l.kind = "value" => p[1].v = l.v /\ p[1].folded = l.folded
           /\ r.kind = "value" => p[2].v = r.v /\ p[2].folded = r.folded
  BY <1>1, ArithCastIs
<1>3. PICK x, y : x = p[1] /\ y = p[2]
  OBVIOUS
<1>4. PICK t : t = Truth(Holds(op, x.v, y.v))
  OBVIOUS
<1>5. g = IF ~(Usable(x) /\ Usable(y) /\ x.w = y.w) THEN Broken
          ELSE IF "poison" \in {x.kind, y.kind} THEN Poison(1)
          ELSE Value(1, t, x.folded /\ y.folded)
  BY <1>1, <1>3, <1>4 DEF GenComparison, Instruction
<1>6. /\ IrTyped(x) /\ IrTyped(y) /\ x.folded \in BOOLEAN /\ y.folded \in BOOLEAN
      /\ x.kind \in Kinds /\ y.kind \in Kinds
  BY <1>2, <1>3 DEF IrTyped
<1>7. t \in Int /\ SignedOf(1, t) = -t /\ 1 \in ValueWidths
  BY <1>4, SmallInWord, WidthsAre DEF Truth, ValueWidths
<1>8. PICK f \in BOOLEAN : f = (x.folded /\ y.folded)
  OBVIOUS
<1>9. /\ IrTyped(g)
      /\ Usable(x) /\ Usable(y) /\ x.w = y.w =>
           /\ Usable(g) /\ g.w = 1
           /\ x.kind = "value" /\ y.kind = "value" => g.kind = "value" /\ g.v = -t /\ g.folded = f
  <2> HIDE DEF g
  <2>1. CASE ~(Usable(x) /\ Usable(y) /\ x.w = y.w)
    BY <1>5, <2>1, MadeTyped
  <2>2. CASE Usable(x) /\ Usable(y) /\ x.w = y.w /\ "poison" \in {x.kind, y.kind}
    BY <1>5, <1>7, <2>2, MadeTyped
  <2>3. CASE Usable(x) /\ Usable(y) /\ x.w = y.w /\ "poison" \notin {x.kind, y.kind}
    <3>1. g = Value(1, t, f)
      BY <1>5, <1>8, <2>3
    <3>2. QED
      BY <1>7, <3>1, MadeTyped
  <2>4. QED
    BY <2>1, <2>2, <2>3
<1> HIDE DEF g
<1>10. ASSUME Usable(l), Usable(r), Promoted(l.w) <= Promoted(r.w)
      PROVE  /\ Usable(g) /\ g.w = 1
             /\ l.kind = "value" /\ r.kind = "value" =>
                  /\ g.kind = "value" /\ g.v = -Truth(Holds(op, l.v, r.v))
                  /\ g.folded = (l.folded /\ r.folded)
  BY <1>2, <1>3, <1>4, <1>8, <1>9, <1>10
<1>11. QED
  BY <1>9, <1>10 DEF g

\* && and ||: the left operand decides, or the right one does.
LEMMA LogicalIs ==
  ASSUME NEW op \in Logical, NEW l, NEW r, IrTyped(l), IrTyped(r)
  PROVE  LET g == GenLogical(op, l, r)
         IN  /\ IrTyped(g)
             /\ Usable(l) /\ Usable(r) =>
                  /\ Usable(g) /\ g.w = IntWidth
                  /\ l.kind = "value" /\ (l.v = 0) = (op = "logical_and") =>
                       g.kind = "value" /\ g.v = Truth(op = "logical_or")
                  /\ l.kind = "value" /\ (l.v = 0) # (op = "logical_and") /\ r.kind = "value" =>
                       g.kind = "value" /\ g.v = Truth(r.v # 0)
<1> DEFINE g == GenLogical(op, l, r)
<1>1. PICK x, y, s : x = BoolCast(l) /\ y = BoolCast(r) /\ s = Truth(op = "logical_or")
  OBVIOUS
<1>2. PICK t, u : t = Truth(x.v # 0) /\ u = Truth(y.v # 0)
  OBVIOUS
<1>3. g = IF ~(Usable(l) /\ Usable(r)) THEN Broken
          ELSE IF x.kind = "poison" THEN Poison(IntWidth)
          ELSE IF t = s THEN Value(IntWidth, s, FALSE)
          ELSE IF y.kind = "poison" THEN Poison(IntWidth)
          ELSE Value(IntWidth, u, FALSE)
  BY <1>1, <1>2 DEF GenLogical
<1>4. IntWidth \in ValueWidths /\ IntWidth \in Widths /\ IntWidth > 1
  BY WidthsAre DEF ValueWidths
<1>5. t \in {0, 1} /\ u \in {0, 1} /\ s \in {0, 1}
  BY <1>1, <1>2 DEF Truth
<1>6. InWord(IntWidth, t) /\ InWord(IntWidth, u) /\ InWord(IntWidth, s)
  BY <1>4, <1>5, SmallInWord
<1>7. /\ Usable(l) => x.kind = l.kind /\ (l.kind = "value" => x.v = -Truth(l.v # 0))
      /\ Usable(r) => y.kind = r.kind /\ (r.kind = "value" => y.v = -Truth(r.v # 0))
  BY <1>1, BoolCastIs
<1>8. /\ Usable(l) /\ l.kind = "value" => t = Truth(l.v # 0)
      /\ Usable(r) /\ r.kind = "value" => u = Truth(r.v # 0)
  BY <1>2, <1>7 DEF Truth
<1>9. l.kind = "value" /\ Usable(l) => (t = s <=> (l.v = 0) = (op = "logical_and"))
  BY <1>1, <1>8 DEF Truth, Logical
<1>10. /\ IrTyped(Poison(IntWidth)) /\ Usable(Poison(IntWidth)) /\ Poison(IntWidth).w = IntWidth
       /\ \A v \in {s, u} : /\ IrTyped(Value(IntWidth, v, FALSE)) /\ Usable(Value(IntWidth, v, FALSE))
                            /\ Value(IntWidth, v, FALSE).w = IntWidth /\ Value(IntWidth, v, FALSE).v = v
                            /\ Value(IntWidth, v, FALSE).kind = "value"
  <2>1. ASSUME NEW v \in Int, InWord(IntWidth, v)
        PROVE  /\ IrTyped(Value(IntWidth, v, FALSE)) /\ Usable(Value(IntWidth, v, FALSE))
               /\ Value(IntWidth, v, FALSE).w = IntWidth /\ Value(IntWidth, v, FALSE).v = v
               /\ Value(IntWidth, v, FALSE).kind = "value"
    BY <1>4, <2>1, MadeTyped
  <2>2. s \in Int /\ u \in Int
    BY <1>5
  <2>3. IrTyped(Poison(IntWidth)) /\ Usable(Poison(IntWidth)) /\ Poison(IntWidth).w = IntWidth
    BY <1>4, MadeTyped
  <2>4. QED
    BY <1>6, <2>1, <2>2, <2>3
<1> HIDE DEF g
<1>11. IrTyped(g) /\ (Usable(l) /\ Usable(r) => Usable(g) /\ g.w = IntWidth)
  BY <1>3, <1>10, MadeTyped
<1>12. ASSUME Usable(l), Usable(r), l.kind = "value", (l.v = 0) = (op = "logical_and")
       PROVE  g.kind = "value" /\ g.v = Truth(op = "logical_or")
  <2>1. t = s /\ x.kind = "value"
    BY <1>7, <1>9, <1>12
  <2>2. g = Value(IntWidth, s, FALSE)
    BY <1>3, <1>12, <2>1
  <2>3. QED
    BY <1>1, <1>10, <2>2
<1>13. ASSUME Usable(l), Usable(r), l.kind = "value", (l.v = 0) # (op = "logical_and"), r.kind = "value"
       PROVE  g.kind = "value" /\ g.v = Truth(r.v # 0)
  <2>1. t # s /\ x.kind = "value" /\ y.kind = "value"
    BY <1>7, <1>9, <1>13
  <2>2. g = Value(IntWidth, u, FALSE)
    BY <1>3, <1>13, <2>1
  <2>3. QED
    BY <1>8, <1>10, <1>13, <2>2
<1>14. QED
  BY <1>11, <1>12, <1>13 DEF g

\* What the complement of a number of a word is.
LEMMA ComplementInWord ==
  ASSUME NEW w \in Widths, NEW v, InWord(w, v)
  PROVE  InWord(w, -v - 1)
<1>1. w - 1 \in 0 .. LongWidth + 1
  BY WidthsAre DEF Widths
<1>2. 2^(w - 1) \in Nat
  BY <1>1, PowerPositive
<1>3. QED
  BY <1>2 DEF InWord

\* The unary operators.
LEMMA UnaryIs ==
  ASSUME NEW op \in UnaryOps, NEW x, IrTyped(x)
  PROVE  LET g == GenUnary(op, x)
         IN  /\ IrTyped(g)
             /\ Usable(x) /\ (op = "logical_not" => x.w = IntWidth) =>
                  /\ Usable(g) /\ g.w = x.w
                  /\ x.kind = "value" =>
                       /\ g.kind = "value" /\ g.folded = x.folded
                       /\ op = "positive" => g.v = x.v
                       /\ op = "negative" => g.v = SignedOf(x.w, -x.v)
                       /\ op = "logical_not" => g.v = Truth(x.v = 0)
                       /\ op = "bitwise_not" => g.v = -x.v - 1
<1> DEFINE g == GenUnary(op, x)
           bad == ~Usable(x) \/ (op = "logical_not" /\ x.w # IntWidth)
<1>1. /\ x.v \in Int /\ x.folded \in BOOLEAN /\ x.kind \in Kinds
      /\ op \in {"positive", "negative", "logical_not", "bitwise_not"}
  BY DEF IrTyped, UnaryOps
<1>2. CASE bad
  <2>1. g = Broken
    BY <1>2 DEF GenUnary
  <2>2. QED
    BY <1>2, <2>1, MadeTyped
<1>3. CASE ~bad /\ x.kind = "poison"
  <2>1. g = x
    BY <1>3 DEF GenUnary
  <2>2. QED
    BY <1>3, <2>1
<1>4. CASE ~bad /\ x.kind = "value"
  <2>1. x.w \in ValueWidths /\ x.w \in Widths /\ InWord(x.w, x.v)
    BY <1>4, ValueWidthIs DEF IrTyped, Usable
  <2>2. CASE op = "positive"
    <3>1. g = x
      BY <1>4, <2>2 DEF GenUnary
    <3>2. QED
      BY <1>4, <2>2, <3>1
  <2>3. CASE op # "positive"
    <3>1. PICK n : n = CASE op = "logical_not" -> Truth(x.v = 0)
                         [] op = "negative" -> -x.v
                         [] op = "bitwise_not" -> -x.v - 1
      OBVIOUS
    <3>2. n \in Int
      BY <1>1, <2>3, <3>1 DEF Truth
    <3>3. g = Value(x.w, n, x.folded)
      BY <1>1, <1>4, <2>3, <3>1 DEF GenUnary
    <3>4. /\ IrTyped(g) /\ Usable(g) /\ g.w = x.w /\ g.kind = "value" /\ g.folded = x.folded
          /\ g.v = SignedOf(x.w, n) /\ (InWord(x.w, n) => g.v = n)
      <4> HIDE DEF g
      <4>1. PICK w \in ValueWidths : w = x.w
        BY <2>1
      <4>2. PICK f \in BOOLEAN : f = x.folded
        BY <1>1
      <4>3. /\ IrTyped(Value(w, n, f)) /\ Usable(Value(w, n, f)) /\ Value(w, n, f).kind = "value"
            /\ Value(w, n, f).w = w /\ Value(w, n, f).folded = f /\ Value(w, n, f).v = SignedOf(w, n)
            /\ InWord(w, n) => Value(w, n, f).v = n
        BY <3>2, MadeTyped
      <4>4. QED
        BY <3>3, <4>1, <4>2, <4>3
    <3>5. op = "logical_not" => n = Truth(x.v = 0) /\ InWord(x.w, n)
      <4>1. op = "logical_not" => x.w > 1
        BY <1>4, WidthsAre
      <4>2. op = "logical_not" => n = Truth(x.v = 0) /\ n \in {0, 1}
        BY <3>1 DEF Truth
      <4>3. QED
        BY <2>1, <4>1, <4>2, SmallInWord
    <3>6. op = "bitwise_not" => n = -x.v - 1 /\ InWord(x.w, n)
      BY <2>1, <3>1, ComplementInWord
    <3>7. op = "negative" => n = -x.v
      BY <3>1
    <3>8. /\ op = "negative" => g.v = SignedOf(x.w, -x.v)
          /\ op = "logical_not" => g.v = Truth(x.v = 0)
          /\ op = "bitwise_not" => g.v = -x.v - 1
      <4> HIDE DEF g
      <4>1. QED
        BY <3>4, <3>5, <3>6, <3>7
    <3>9. QED
      BY <2>3, <3>4, <3>8
  <2>4. QED
    BY <2>2, <2>3
<1>5. QED
  <2> HIDE DEF g
  <2>1. Usable(x) => x.kind \in {"value", "poison"}
    BY DEF Usable
  <2>2. QED
    BY <1>2, <1>3, <1>4, <2>1 DEF g

\* The conditional operator, on branches that need no conversion.
LEMMA ThreeIs ==
  ASSUME NEW c, NEW t, NEW e, NEW ty \in IntegerTypes, IrTyped(c), IrTyped(t), IrTyped(e)
  PROVE  LET g == GenThree(c, t, e, ty)
         IN  /\ IrTyped(g)
             /\ Usable(c) /\ Usable(t) /\ Usable(e) /\ t.w = Width(ty) /\ e.w = t.w /\ IntWidth <= t.w =>
                  /\ Usable(g) /\ g.w = Width(ty)
                  /\ c.kind = "value" /\ c.v # 0 /\ t.kind = "value" => g.kind = "value" /\ g.v = t.v
                  /\ c.kind = "value" /\ c.v = 0 /\ e.kind = "value" => g.kind = "value" /\ g.v = e.v
<1> DEFINE g == GenThree(c, t, e, ty)
<1>1. PICK p : p = BinaryArithCast(t, e)
  OBVIOUS
<1>2. PICK d : d = IF c.v # 0 THEN p[1] ELSE p[2]
  OBVIOUS
<1>3. PICK stays \in BOOLEAN : stays <=>
        /\ p[1].w = Width(ty) /\ (t = p[1] \/ t.folded)
        /\ p[2].w = Width(ty) /\ (e = p[2] \/ e.folded)
  OBVIOUS
<1>4. g = IF ~(Usable(c) /\ Usable(t) /\ Usable(e)) \/ ~stays THEN Broken
          ELSE IF "poison" \in {c.kind, d.kind} THEN Poison(Width(ty))
          ELSE Value(Width(ty), d.v, FALSE)
  BY <1>1, <1>2, <1>3 DEF GenThree
<1>5. IrTyped(p[1]) /\ IrTyped(p[2])
  BY <1>1, ArithCastIs
<1>6. d.v \in Int /\ IrTyped(d)
  BY <1>2, <1>5 DEF IrTyped
<1>7. PICK w \in ValueWidths : w = Width(ty) /\ w \in Nat
  BY WidthIs DEF ValueWidths
<1> HIDE DEF g
<1>8. PICK v \in Int : v = d.v
  BY <1>6
<1>9. /\ IrTyped(Value(w, v, FALSE)) /\ Usable(Value(w, v, FALSE)) /\ Value(w, v, FALSE).kind = "value"
      /\ Value(w, v, FALSE).w = w /\ (InWord(w, v) => Value(w, v, FALSE).v = v)
      /\ IrTyped(Poison(w)) /\ Usable(Poison(w)) /\ Poison(w).w = w
  BY ZenonT(60), MadeTyped
<1>10. IrTyped(g)
  BY <1>4, <1>7, <1>8, <1>9, MadeTyped
<1>11. ASSUME Usable(c), Usable(t), Usable(e), t.w = Width(ty), e.w = t.w, IntWidth <= t.w
       PROVE  /\ Usable(g) /\ g.w = Width(ty)
              /\ c.kind = "value" /\ c.v # 0 /\ t.kind = "value" => g.kind = "value" /\ g.v = t.v
              /\ c.kind = "value" /\ c.v = 0 /\ e.kind = "value" => g.kind = "value" /\ g.v = e.v
  <2>1. ~(t.w < IntWidth \/ t.w < e.w) /\ ~(e.w < IntWidth \/ e.w < t.w)
    BY <1>7, <1>11, WidthsAre
  <2>2. p[1] = t /\ p[2] = e
    BY <1>1, <2>1 DEF BinaryArithCast
  <2>3. stays
    BY <1>3, <1>11, <2>2
  <2>4. Usable(g) /\ g.w = w
    BY <1>4, <1>7, <1>8, <1>9, <1>11, <2>3
  <2>5. ASSUME c.kind = "value", d.kind = "value", d.w = w
        PROVE  g.kind = "value" /\ g.v = d.v
    <3>1. g = Value(w, v, FALSE)
      BY <1>4, <1>7, <1>8, <1>11, <2>3, <2>5
    <3>2. InWord(w, v)
      BY <1>6, <1>8, <2>5 DEF IrTyped
    <3>3. QED
      BY <1>8, <1>9, <3>1, <3>2
  <2>6. c.v # 0 => d = t
    BY <1>2, <2>2
  <2>7. c.v = 0 => d = e
    BY <1>2, <2>2
  <2>8. QED
    BY <1>7, <1>11, <2>4, <2>5, <2>6, <2>7
<1>12. QED
  BY <1>10, <1>11 DEF g

\* ++ and -- of an int.
LEMMA IncrementIs ==
  ASSUME NEW x, IrTyped(x), x.kind = "value", x.w = IntWidth, NEW delta \in Int
  PROVE  LET g == GenIncrement(x, delta)
         IN  /\ Usable(g) /\ g.w = IntWidth /\ g.kind = "value"
             /\ InWord(IntWidth, x.v + delta) => g.v = x.v + delta
<1> DEFINE g == GenIncrement(x, delta)
<1>1. PICK y : y = Value(IntWidth, 1, TRUE)
  OBVIOUS
<1>2. IntWidth \in ValueWidths /\ x.v \in Int /\ x.folded \in BOOLEAN /\ Usable(x)
  BY DEF ValueWidths, IrTyped, Usable
<1>3. Usable(y) /\ y.w = IntWidth /\ y.kind = "value" /\ y.folded = TRUE
  <2>1. PICK one \in Int : one = 1
    OBVIOUS
  <2>2. PICK yes \in BOOLEAN : yes = TRUE
    OBVIOUS
  <2>3. Usable(Value(IntWidth, one, yes)) /\ Value(IntWidth, one, yes).kind = "value"
        /\ Value(IntWidth, one, yes).w = IntWidth /\ Value(IntWidth, one, yes).folded = yes
    BY <1>2, MadeTyped
  <2>4. QED
    BY <1>1, <2>1, <2>2, <2>3
<1>4. PICK f \in BOOLEAN : f = (x.folded /\ y.folded)
  OBVIOUS
<1>5. PICK v \in Int : v = x.v + delta
  BY <1>2
<1>6. g = Value(IntWidth, v, f)
  BY <1>1, <1>2, <1>3, <1>4, <1>5 DEF GenIncrement, Instruction
<1> HIDE DEF g
<1>7. /\ Usable(Value(IntWidth, v, f)) /\ Value(IntWidth, v, f).kind = "value"
      /\ Value(IntWidth, v, f).w = IntWidth /\ (InWord(IntWidth, v) => Value(IntWidth, v, f).v = v)
  BY <1>2, MadeTyped
<1>8. QED
  BY <1>5, <1>6, <1>7 DEF g

-----------------------------------------------------------------------------
(* Results of C *)

\* A result of C is a number of its type.
CTyped(r) == r \in [ty : IntegerTypes, defined : BOOLEAN, v : Int] /\ Fits(r.ty, r.v)

\* What the makers of results make.
LEMMA CMadeTyped ==
  ASSUME NEW t \in IntegerTypes
  PROVE  /\ CTyped(CUndefined(t)) /\ ~CUndefined(t).defined /\ CUndefined(t).ty = t
         /\ \A v \in Int : /\ CValue(t, v) \in [ty : IntegerTypes, defined : BOOLEAN, v : Int]
                           /\ CValue(t, v).ty = t /\ CValue(t, v).defined /\ CValue(t, v).v = v
                           /\ Fits(t, v) => CTyped(CValue(t, v))
         /\ \A v \in Int : /\ CTyped(CResult(t, v)) /\ CResult(t, v).ty = t
                           /\ t \in SignedTypes /\ CResult(t, v).defined =>
                                CResult(t, v).v = v /\ InWord(Width(t), v)
<1>1. CTyped(CUndefined(t)) /\ ~CUndefined(t).defined /\ CUndefined(t).ty = t
  BY BitFits DEF CUndefined, CTyped
<1>2. ASSUME NEW v \in Int
      PROVE  /\ CValue(t, v) \in [ty : IntegerTypes, defined : BOOLEAN, v : Int]
             /\ CValue(t, v).ty = t /\ CValue(t, v).defined /\ CValue(t, v).v = v
             /\ Fits(t, v) => CTyped(CValue(t, v))
  BY DEF CValue, CTyped
<1>3. ASSUME NEW v \in Int
      PROVE  /\ CTyped(CResult(t, v)) /\ CResult(t, v).ty = t
             /\ t \in SignedTypes /\ CResult(t, v).defined =>
                  CResult(t, v).v = v /\ InWord(Width(t), v)
  <2>1. CASE t \in UnsignedTypes
    <3>1. CResult(t, v) = CValue(t, Convert(t, v)) /\ t \notin SignedTypes
      BY <2>1 DEF CResult, UnsignedTypes, SignedTypes
    <3>2. Convert(t, v) \in Int /\ Fits(t, Convert(t, v))
      BY ConvertFits
    <3>3. QED
      BY <1>2, <3>1, <3>2
  <2>2. CASE t \in SignedTypes /\ Fits(t, v)
    <3>1. CResult(t, v) = CValue(t, v)
      BY <2>2 DEF CResult, UnsignedTypes, SignedTypes
    <3>2. QED
      BY <1>2, <2>2, <3>1, SignedFits
  <2>3. CASE t \in SignedTypes /\ ~Fits(t, v)
    <3>1. CResult(t, v) = CUndefined(t)
      BY <2>3 DEF CResult, UnsignedTypes, SignedTypes
    <3>2. QED
      BY <1>1, <3>1
  <2>4. QED
    BY <2>1, <2>2, <2>3 DEF IntegerTypes
<1>4. QED
  BY <1>1, <1>2, <1>3

\* What is in the word of one of two signed types is in that of the common type.
LEMMA CommonKeeps ==
  ASSUME NEW t \in SignedTypes, NEW u \in SignedTypes, NEW v \in Int, Fits(t, v) \/ Fits(u, v)
  PROVE  Convert(CCommon(t, u), v) = v /\ InWord(Width(CCommon(t, u)), v)
<1> DEFINE s == CCommon(t, u)
<1>1. t \in IntegerTypes /\ u \in IntegerTypes
  BY DEF IntegerTypes
<1>2. s \in SignedTypes /\ s \in IntegerTypes /\ Width(s) = Larger(Width(CPromote(t)), Width(CPromote(u)))
  BY <1>1, CommonIs
<1>3. /\ CPromote(t) \in SignedTypes /\ CPromote(u) \in SignedTypes
      /\ CPromote(t) \in IntegerTypes /\ CPromote(u) \in IntegerTypes
  BY <1>1, PromoteIs
<1>4. /\ Width(s) \in Widths /\ Width(s) \in Nat
      /\ Width(CPromote(t)) \in Widths /\ Width(CPromote(t)) \in Nat
      /\ Width(CPromote(u)) \in Widths /\ Width(CPromote(u)) \in Nat
  BY <1>2, <1>3, WidthIs
<1>5. Width(CPromote(t)) <= Width(s) /\ Width(CPromote(u)) <= Width(s)
  BY <1>2, <1>4 DEF Larger
<1>6. InWord(Width(CPromote(t)), v) \/ InWord(Width(CPromote(u)), v)
  BY <1>1, <1>3, PromoteFits, SignedFits
<1> HIDE DEF s
<1>7. InWord(Width(s), v)
  BY <1>4, <1>5, <1>6, WiderWord
<1>8. QED
  BY <1>2, <1>7, SignedFits DEF s

\* A conversion.
LEMMA CCastIs ==
  ASSUME NEW t \in IntegerTypes, NEW x, CTyped(x)
  PROVE  LET r == CCast(t, x)
         IN  /\ CTyped(r) /\ r.ty = t /\ (r.defined <=> x.defined)
             /\ x.defined => r.v = Convert(t, x.v)
<1>1. x.v \in Int /\ x.defined \in BOOLEAN
  BY DEF CTyped
<1>2. Convert(t, x.v) \in Int /\ Fits(t, Convert(t, x.v))
  BY <1>1, ConvertFits
<1>3. PICK v \in Int : v = Convert(t, x.v)
  BY <1>2
<1>4. /\ CTyped(CValue(t, v)) /\ CValue(t, v).ty = t /\ CValue(t, v).defined /\ CValue(t, v).v = v
      /\ CTyped(CUndefined(t)) /\ CUndefined(t).ty = t /\ ~CUndefined(t).defined
  BY <1>2, <1>3, CMadeTyped
<1>5. CASE x.defined
  <2>1. CCast(t, x) = CValue(t, v)
    BY <1>3, <1>5 DEF CCast
  <2>2. QED
    BY <1>3, <1>4, <1>5, <2>1
<1>6. CASE ~x.defined
  <2>1. CCast(t, x) = CUndefined(t)
    BY <1>6 DEF CCast
  <2>2. QED
    BY <1>4, <1>6, <2>1
<1>7. QED
  BY <1>5, <1>6

\* The unary operators.
LEMMA CUnaryIs ==
  ASSUME NEW op \in UnaryOps, NEW x, CTyped(x)
  PROVE  LET r == CUnary(op, x)
         IN  /\ CTyped(r) /\ r.ty = IF op = "logical_not" THEN "Int" ELSE CPromote(x.ty)
             /\ r.defined => x.defined
             /\ r.defined /\ x.ty \in SignedTypes =>
                  /\ op = "positive" => r.v = x.v
                  /\ op = "negative" => r.v = -x.v /\ InWord(Width(r.ty), -x.v)
                  /\ op = "logical_not" => r.v = Truth(x.v = 0)
                  /\ op = "bitwise_not" => r.v = -x.v - 1
<1> DEFINE r == CUnary(op, x)
<1>1. PICK t : t = IF op = "logical_not" THEN "Int" ELSE CPromote(x.ty)
  OBVIOUS
<1>2. /\ x.v \in Int /\ x.defined \in BOOLEAN /\ x.ty \in IntegerTypes /\ Fits(x.ty, x.v)
      /\ op \in {"positive", "negative", "logical_not", "bitwise_not"}
  BY DEF CTyped, UnaryOps
<1>3. t \in IntegerTypes /\ (x.ty \in SignedTypes => t \in SignedTypes)
  BY <1>1, <1>2, PromoteIs DEF IntegerTypes, SignedTypes
<1>4. CASE ~x.defined
  <2>1. r = CUndefined(t)
    BY <1>1, <1>4 DEF CUnary
  <2>2. CTyped(CUndefined(t)) /\ CUndefined(t).ty = t /\ ~CUndefined(t).defined
    BY <1>3, CMadeTyped
  <2>3. QED
    BY <1>1, <2>1, <2>2
<1>5. CASE x.defined /\ op = "positive"
  <2>1. r = CValue(t, x.v)
    BY <1>1, <1>5 DEF CUnary
  <2>2. Fits(t, x.v)
    BY <1>1, <1>2, <1>5, PromoteFits
  <2>3. CTyped(CValue(t, x.v)) /\ CValue(t, x.v).ty = t /\ CValue(t, x.v).v = x.v
    BY <1>2, <1>3, <2>2, CMadeTyped
  <2> HIDE DEF r
  <2>4. CTyped(r) /\ r.ty = t /\ r.v = x.v
    BY <2>1, <2>3
  <2>5. QED
    BY <1>1, <1>5, <2>4 DEF r
<1>6. CASE x.defined /\ op = "negative"
  <2>1. PICK n \in Int : n = -x.v
    BY <1>2
  <2>2. r = CResult(t, n)
    BY <1>1, <1>6, <2>1 DEF CUnary
  <2>3. /\ CTyped(CResult(t, n)) /\ CResult(t, n).ty = t
        /\ t \in SignedTypes /\ CResult(t, n).defined => CResult(t, n).v = n /\ InWord(Width(t), n)
    BY <1>3, CMadeTyped
  <2> HIDE DEF r
  <2>4. CTyped(r) /\ r.ty = t /\ (t \in SignedTypes /\ r.defined => r.v = n /\ InWord(Width(t), n))
    BY <2>2, <2>3
  <2>5. QED
    BY <1>1, <1>3, <1>6, <2>1, <2>4 DEF r
<1>7. CASE x.defined /\ op = "logical_not"
  <2>1. PICK n \in {0, 1} : n = Truth(x.v = 0)
    BY DEF Truth
  <2>2. r = CValue(t, n)
    BY <1>1, <1>7, <2>1 DEF CUnary
  <2>3. Fits(t, n)
    BY <1>3, <2>1, BitFits
  <2>4. CTyped(CValue(t, n)) /\ CValue(t, n).ty = t /\ CValue(t, n).v = n
    BY <1>3, <2>1, <2>3, CMadeTyped
  <2> HIDE DEF r
  <2>5. CTyped(r) /\ r.ty = t /\ r.v = n
    BY <2>2, <2>4
  <2>6. QED
    BY <1>1, <1>7, <2>1, <2>5 DEF r
<1>8. CASE x.defined /\ op = "bitwise_not"
  <2>1. PICK c \in Int : c = -x.v - 1
    BY <1>2
  <2>2. PICK n \in Int : n = Convert(t, c) /\ Fits(t, n)
    BY <1>3, ConvertFits
  <2>3. r = CValue(t, n)
    BY <1>1, <1>8, <2>1, <2>2 DEF CUnary
  <2>4. CTyped(CValue(t, n)) /\ CValue(t, n).ty = t /\ CValue(t, n).v = n
    BY <1>3, <2>2, CMadeTyped
  <2>5. t \in SignedTypes => n = c
    <3>1. Fits(t, x.v)
      BY <1>1, <1>2, <1>8, PromoteFits
    <3>2. t \in SignedTypes => Width(t) \in Widths /\ InWord(Width(t), x.v)
      BY <1>2, <1>3, <3>1, WidthIs, SignedFits
    <3>3. t \in SignedTypes => InWord(Width(t), -x.v - 1)
      BY <3>2, ComplementInWord
    <3>4. QED
      BY <2>1, <2>2, <3>3, SignedFits
  <2> HIDE DEF r
  <2>6. CTyped(r) /\ r.ty = t /\ r.v = n
    BY <2>3, <2>4
  <2>7. QED
    BY <1>1, <1>3, <1>8, <2>1, <2>5, <2>6 DEF r
<1>9. QED
  BY <1>2, <1>4, <1>5, <1>6, <1>7, <1>8

\* Arithmetic, bitwise operators and shifts.
LEMMA CValueOpIs ==
  ASSUME NEW op \in ValueOps, NEW x, NEW y, CTyped(x), CTyped(y)
  PROVE  LET r == CBinary(op, x, y)
         IN  /\ CTyped(r)
             /\ r.ty = IF op \in Shifts THEN CPromote(x.ty) ELSE CCommon(x.ty, y.ty)
             /\ r.defined => x.defined /\ y.defined
             /\ r.defined /\ x.ty \in SignedTypes /\ y.ty \in SignedTypes =>
                  Exact(op, x.v, y.v, Width(r.ty)) /\ r.v = Apply(op, x.v, y.v)
<1> DEFINE r == CBinary(op, x, y)
<1>1. /\ x.v \in Int /\ x.defined \in BOOLEAN /\ x.ty \in IntegerTypes /\ Fits(x.ty, x.v)
      /\ y.v \in Int /\ y.defined \in BOOLEAN /\ y.ty \in IntegerTypes /\ Fits(y.ty, y.v)
  BY DEF CTyped
<1>2. op # "comma" /\ op \notin Logical /\ op \notin Comparisons
  BY DEF ValueOps, Arithmetic, Bitwise, Shifts, Logical, Comparisons
<1>3. PICK t : t = IF op \in Shifts THEN CPromote(x.ty) ELSE CCommon(x.ty, y.ty)
  OBVIOUS
<1>4. PICK a : a = IF op \in Shifts THEN x.v ELSE Convert(t, x.v)
  OBVIOUS
<1>5. PICK b : b = IF op \in Shifts THEN y.v ELSE Convert(t, y.v)
  OBVIOUS
<1>6. /\ t \in IntegerTypes
      /\ x.ty \in SignedTypes /\ y.ty \in SignedTypes => t \in SignedTypes
  BY <1>1, <1>3, PromoteIs, CommonIs
<1>7. a \in Int /\ b \in Int /\ Width(t) \in Widths
  BY <1>1, <1>4, <1>5, <1>6, ConvertFits, WidthIs
<1>8. x.ty \in SignedTypes /\ y.ty \in SignedTypes => a = x.v /\ b = y.v
  BY <1>1, <1>3, <1>4, <1>5, CommonKeeps
<1>9. PICK yes \in BOOLEAN : yes <=> /\ x.defined /\ y.defined /\ Applicable(op, a, b, Width(t))
                                     /\ op = "left_shift" => x.v >= 0
  OBVIOUS
<1>10. r = IF yes THEN CResult(t, Apply(op, a, b)) ELSE CUndefined(t)
  <2>1. CASE op \in Shifts
    <3>1. r = CShift(op, x, y)
      BY <1>2, <2>1 DEF CBinary
    <3>2. QED
      BY <1>3, <1>4, <1>5, <1>9, <2>1, <3>1 DEF CShift
  <2>2. CASE op \notin Shifts
    <3>1. op # "left_shift"
      BY <2>2 DEF Shifts
    <3>2. r = IF ~(x.defined /\ y.defined /\ Applicable(op, a, b, Width(t))) THEN CUndefined(t)
              ELSE CResult(t, Apply(op, a, b))
      BY <1>2, <1>3, <1>4, <1>5, <2>2 DEF CBinary
    <3> HIDE DEF r
    <3>3. QED
      BY <1>9, <3>1, <3>2
  <2>3. QED
    BY <2>1, <2>2
<1>11. CASE ~yes
  <2>1. CTyped(CUndefined(t)) /\ CUndefined(t).ty = t /\ ~CUndefined(t).defined
    BY <1>6, CMadeTyped
  <2> HIDE DEF r
  <2>2. CTyped(r) /\ r.ty = t /\ ~r.defined
    BY <1>10, <1>11, <2>1
  <2>3. QED
    BY <1>3, <2>2 DEF r
<1>12. CASE yes
  <2>1. Applicable(op, a, b, Width(t)) /\ x.defined /\ y.defined
    BY <1>9, <1>12
  <2>2. PICK v \in Int : v = Apply(op, a, b)
    BY <1>7, <2>1, ApplyIs
  <2>3. /\ CTyped(CResult(t, v)) /\ CResult(t, v).ty = t
        /\ t \in SignedTypes /\ CResult(t, v).defined => CResult(t, v).v = v /\ InWord(Width(t), v)
    BY <1>6, CMadeTyped
  <2> HIDE DEF r
  <2>4. CTyped(r) /\ r.ty = t /\ (t \in SignedTypes /\ r.defined => r.v = v /\ InWord(Width(t), v))
    BY <1>10, <1>12, <2>2, <2>3
  <2>5. ASSUME r.defined, x.ty \in SignedTypes, y.ty \in SignedTypes
        PROVE  Exact(op, x.v, y.v, Width(r.ty)) /\ r.v = Apply(op, x.v, y.v)
    BY <1>6, <1>8, <2>1, <2>2, <2>4, <2>5 DEF Exact
  <2>6. QED
    BY <1>3, <2>1, <2>4, <2>5 DEF r
<1>13. QED
  BY <1>11, <1>12

\* Comparisons.
LEMMA CComparisonIs ==
  ASSUME NEW op \in Comparisons, NEW x, NEW y, CTyped(x), CTyped(y)
  PROVE  LET r == CBinary(op, x, y)
         IN  /\ CTyped(r) /\ r.ty = "Int" /\ (r.defined => x.defined /\ y.defined)
             /\ r.defined /\ x.ty \in SignedTypes /\ y.ty \in SignedTypes =>
                  r.v = Truth(Holds(op, x.v, y.v))
<1> DEFINE r == CBinary(op, x, y)
<1>1. /\ x.v \in Int /\ x.defined \in BOOLEAN /\ x.ty \in IntegerTypes /\ Fits(x.ty, x.v)
      /\ y.v \in Int /\ y.defined \in BOOLEAN /\ y.ty \in IntegerTypes /\ Fits(y.ty, y.v)
  BY DEF CTyped
<1>2. op # "comma" /\ op \notin Logical /\ op \notin Shifts
  BY DEF Shifts, Logical, Comparisons
<1>3. PICK t : t = CCommon(x.ty, y.ty)
  OBVIOUS
<1>4. PICK n \in {0, 1} : n = Truth(Holds(op, Convert(t, x.v), Convert(t, y.v)))
  BY DEF Truth
<1>5. PICK yes \in BOOLEAN :
        yes <=> x.defined /\ y.defined /\ Applicable(op, Convert(t, x.v), Convert(t, y.v), Width(t))
  OBVIOUS
<1>6. r = IF yes THEN CValue("Int", n) ELSE CUndefined("Int")
  <2>1. r = IF ~(x.defined /\ y.defined /\ Applicable(op, Convert(t, x.v), Convert(t, y.v), Width(t)))
            THEN CUndefined("Int") ELSE CValue("Int", Truth(Holds(op, Convert(t, x.v), Convert(t, y.v))))
    BY <1>2, <1>3 DEF CBinary
  <2> HIDE DEF r
  <2>2. QED
    BY <1>4, <1>5, <2>1
<1>7. "Int" \in IntegerTypes /\ n \in Int /\ Fits("Int", n)
  BY BitFits DEF IntegerTypes, SignedTypes
<1>8. /\ CTyped(CUndefined("Int")) /\ ~CUndefined("Int").defined /\ CUndefined("Int").ty = "Int"
      /\ CTyped(CValue("Int", n)) /\ CValue("Int", n).ty = "Int" /\ CValue("Int", n).v = n
  BY <1>7, CMadeTyped
<1>9. x.ty \in SignedTypes /\ y.ty \in SignedTypes => Convert(t, x.v) = x.v /\ Convert(t, y.v) = y.v
  BY <1>1, <1>3, CommonKeeps
<1> HIDE DEF r
<1>10. CTyped(r) /\ r.ty = "Int" /\ (r.defined => yes) /\ (yes => r.v = n)
  BY <1>6, <1>8
<1>11. x.ty \in SignedTypes /\ y.ty \in SignedTypes => n = Truth(Holds(op, x.v, y.v))
  BY <1>4, <1>9
<1>12. QED
  BY <1>5, <1>10, <1>11 DEF r

\* && and ||.
LEMMA CLogicalIs ==
  ASSUME NEW op \in Logical, NEW x, NEW y, CTyped(x), CTyped(y)
  PROVE  LET r == CBinary(op, x, y)
             skips == (x.v = 0) = (op = "logical_and")
         IN  /\ CTyped(r) /\ r.ty = "Int" /\ (r.defined => x.defined)
             /\ r.defined /\ skips => r.v = Truth(op = "logical_or")
             /\ r.defined /\ ~skips => y.defined /\ r.v = Truth(y.v # 0)
<1> DEFINE r == CBinary(op, x, y)
<1>1. x.v \in Int /\ x.defined \in BOOLEAN /\ y.v \in Int /\ y.defined \in BOOLEAN
  BY DEF CTyped
<1>2. op # "comma" /\ op \notin Shifts
  BY DEF Shifts, Logical
<1>3. PICK skips \in BOOLEAN : skips <=> (x.v = 0) = (op = "logical_and")
  OBVIOUS
<1>4. PICK m \in {0, 1} : m = Truth(op = "logical_or")
  BY DEF Truth
<1>5. PICK n \in {0, 1} : n = Truth(y.v # 0)
  BY DEF Truth
<1>6. r = IF x.defined /\ skips THEN CValue("Int", m)
          ELSE IF x.defined /\ y.defined THEN CValue("Int", n) ELSE CUndefined("Int")
  <2>1. r = IF x.defined /\ (x.v = 0) = (op = "logical_and")
            THEN CValue("Int", Truth(op = "logical_or"))
            ELSE IF x.defined /\ y.defined THEN CValue("Int", Truth(y.v # 0))
            ELSE CUndefined("Int")
    BY <1>2 DEF CBinary
  <2> HIDE DEF r
  <2>2. QED
    BY <1>3, <1>4, <1>5, <2>1
<1>7. "Int" \in IntegerTypes /\ m \in Int /\ n \in Int /\ Fits("Int", m) /\ Fits("Int", n)
  BY BitFits DEF IntegerTypes, SignedTypes
<1>8. /\ CTyped(CUndefined("Int")) /\ ~CUndefined("Int").defined /\ CUndefined("Int").ty = "Int"
      /\ CTyped(CValue("Int", m)) /\ CValue("Int", m).ty = "Int" /\ CValue("Int", m).v = m
      /\ CTyped(CValue("Int", n)) /\ CValue("Int", n).ty = "Int" /\ CValue("Int", n).v = n
  BY <1>7, CMadeTyped
<1> HIDE DEF r
<1>9. /\ CTyped(r) /\ r.ty = "Int" /\ (r.defined => x.defined)
      /\ r.defined /\ skips => r.v = m
      /\ r.defined /\ ~skips => y.defined /\ r.v = n
  BY <1>6, <1>8
<1>10. QED
  BY <1>3, <1>4, <1>5, <1>9 DEF r

\* The comma.
LEMMA CCommaIs ==
  ASSUME NEW x, NEW y, CTyped(x), CTyped(y)
  PROVE  LET r == CBinary("comma", x, y)
         IN  /\ CTyped(r) /\ r.ty = y.ty
             /\ r.defined => x.defined /\ y.defined /\ r.v = y.v
<1> DEFINE r == CBinary("comma", x, y)
<1>1. y.ty \in IntegerTypes /\ x.defined \in BOOLEAN /\ y.defined \in BOOLEAN
  BY DEF CTyped
<1>2. r = IF x.defined THEN y ELSE CUndefined(y.ty)
  BY DEF CBinary, Logical, Shifts
<1>3. CTyped(CUndefined(y.ty)) /\ ~CUndefined(y.ty).defined /\ CUndefined(y.ty).ty = y.ty
  BY <1>1, CMadeTyped
<1> HIDE DEF r
<1>4. CTyped(r) /\ r.ty = y.ty /\ (r.defined => x.defined /\ y.defined /\ r.v = y.v)
  BY <1>2, <1>3
<1>5. QED
  BY <1>4 DEF r

\* The conditional operator.
LEMMA CConditionalIs ==
  ASSUME NEW c, NEW x, NEW y, CTyped(c), CTyped(x), CTyped(y)
  PROVE  LET r == CConditional(c, x, y)
         IN  /\ CTyped(r) /\ r.ty = CCommon(x.ty, y.ty)
             /\ r.defined => c.defined
             /\ r.defined /\ c.v # 0 => x.defined
             /\ r.defined /\ c.v = 0 => y.defined
             /\ r.defined /\ x.ty \in SignedTypes /\ y.ty \in SignedTypes =>
                  r.v = IF c.v # 0 THEN x.v ELSE y.v
<1> DEFINE r == CConditional(c, x, y)
<1>1. /\ x.ty \in IntegerTypes /\ y.ty \in IntegerTypes /\ c.defined \in BOOLEAN
      /\ x.v \in Int /\ y.v \in Int /\ Fits(x.ty, x.v) /\ Fits(y.ty, y.v)
  BY DEF CTyped
<1>2. PICK t \in IntegerTypes : t = CCommon(x.ty, y.ty)
  BY <1>1, CommonIs
<1>3. PICK z : z = IF c.v # 0 THEN x ELSE y
  OBVIOUS
<1>4. CTyped(z)
  BY <1>3
<1>5. r = IF c.defined THEN CCast(t, z) ELSE CUndefined(t)
  BY <1>2, <1>3 DEF CConditional
<1>6. CTyped(CUndefined(t)) /\ ~CUndefined(t).defined /\ CUndefined(t).ty = t
  BY CMadeTyped
<1>7. /\ CTyped(CCast(t, z)) /\ CCast(t, z).ty = t /\ (CCast(t, z).defined <=> z.defined)
      /\ z.defined => CCast(t, z).v = Convert(t, z.v)
  BY <1>4, CCastIs
<1>8. x.ty \in SignedTypes /\ y.ty \in SignedTypes => Convert(t, x.v) = x.v /\ Convert(t, y.v) = y.v
  BY <1>1, <1>2, CommonKeeps
<1> HIDE DEF r
<1>9. /\ CTyped(r) /\ r.ty = t
      /\ r.defined => c.defined /\ z.defined /\ r.v = Convert(t, z.v)
  BY <1>5, <1>6, <1>7
<1>10. QED
  BY <1>2, <1>3, <1>8, <1>9 DEF r


-----------------------------------------------------------------------------
(* Literals *)

\* The type that Sema infers is one that C allows; where it is signed it is C's.
LEMMA LiteralIs ==
  ASSUME NEW lit \in Literals
  PROVE  LET t == LiteralType(lit)
             r == CLiteral(lit)
         IN  /\ t \in IntegerTypes /\ CTyped(r)
             /\ t \in SignedTypes => r.ty = t /\ (r.defined => r.v = lit.v /\ Fits(t, lit.v))
<1>1. /\ lit.v \in Nat /\ lit.v \in Int
      /\ lit.decimal \in BOOLEAN /\ lit.u \in BOOLEAN /\ lit.l \in BOOLEAN
  BY LiteralsAssumption
<1>2. IntWidth \in Widths /\ LongWidth \in Widths
  BY WidthsAre
<1>3. PICK p \in Nat \ {0} : p = 2^(IntWidth - 1) /\ 2^IntWidth = 2 * p
  <2>1. IntWidth - 1 \in 0 .. LongWidth + 1
    BY WidthsAre DEF Widths
  <2>2. QED
    BY <1>2, <2>1, PowerStep, PowerPositive
<1>4. PICK q \in Nat \ {0} : q = 2^(LongWidth - 1) /\ 2^LongWidth = 2 * q /\ 2 * p <= q
  <2>1. IntWidth - 1 \in 0 .. LongWidth + 1 /\ LongWidth - 1 \in 0 .. LongWidth + 1
    BY WidthsAre DEF Widths
  <2>2. IntWidth - 1 < LongWidth - 1
    BY WidthsAre
  <2>3. 2 * 2^(IntWidth - 1) <= 2^(LongWidth - 1)
    BY <2>1, <2>2, PowersGrow
  <2>4. QED
    BY <1>2, <1>3, <2>1, <2>3, PowerStep, PowerPositive
<1>5. PICK v \in Nat : v = lit.v
  BY <1>1
<1>6. /\ Fits("Int", v) <=> v < p
      /\ Fits("UInt", v) <=> v < 2 * p
      /\ Fits("Long", v) <=> v < q
      /\ Fits("ULong", v) <=> v < 2 * q
  <2>1. /\ Fits("Int", v) <=> InWord(IntWidth, v)
        /\ Fits("Long", v) <=> InWord(LongWidth, v)
    BY SignedFits, WidthTable DEF SignedTypes
  <2>2. /\ Fits("UInt", v) <=> v \in 0 .. 2^IntWidth - 1
        /\ Fits("ULong", v) <=> v \in 0 .. 2^LongWidth - 1
    <3>1. /\ Fits("UInt", v) <=> v \in 0 .. 2^Width("UInt") - 1
          /\ Fits("ULong", v) <=> v \in 0 .. 2^Width("ULong") - 1
      <4>1. v \in Int /\ {"UInt", "ULong"} \subseteq UnsignedTypes
        BY DEF UnsignedTypes
      <4>2. \A ty \in UnsignedTypes : Fits(ty, v) <=> v \in 0 .. 2^Width(ty) - 1
        BY <4>1, UnsignedFits
      <4>3. QED
        BY <4>1, <4>2
    <3>2. QED
      BY <3>1, WidthTable
  <2>3. (InWord(IntWidth, v) <=> v < p) /\ (InWord(LongWidth, v) <=> v < q)
    BY <1>3, <1>4 DEF InWord
  <2>4. QED
    BY <1>3, <1>4, <2>1, <2>2, <2>3
<1>7. \A x \in Nat \ {0} : (v \div x # 0) <=> v >= x
  OBVIOUS
<1> DEFINE t == LiteralType(lit)
           r == CLiteral(lit)
           F == {i \in 1 .. 4 : LET u == CLiteralTypes[i] IN
                   /\ lit.u => u \in UnsignedTypes
                   /\ lit.l => Width(u) = LongWidth
                   /\ lit.decimal /\ ~lit.u => u \in SignedTypes
                   /\ Fits(u, v)}
<1>8. t = IF lit.decimal
          THEN IF lit.l THEN IF lit.u THEN "ULong" ELSE "Long"
               ELSE IF lit.u THEN IF v >= 2 * p THEN "ULong" ELSE "UInt"
               ELSE IF v >= p THEN "Long" ELSE "Int"
          ELSE IF lit.l THEN IF lit.u \/ v >= q THEN "ULong" ELSE "Long"
               ELSE IF lit.u THEN IF v >= 2 * p THEN "ULong" ELSE "UInt"
               ELSE IF v >= q THEN "ULong"
               ELSE IF v >= 2 * p THEN "Long"
               ELSE IF v >= p THEN "UInt" ELSE "Int"
  <2>1. PICK big \in BOOLEAN : big <=> v >= p
    OBVIOUS
  <2>2. PICK bigger \in BOOLEAN : bigger <=> v >= 2 * p
    OBVIOUS
  <2>3. PICK biggest \in BOOLEAN : biggest <=> v >= q
    OBVIOUS
  <2>4. 2 * p \in Nat \ {0}
    OBVIOUS
  <2>5. /\ (lit.v \div 2^(IntWidth - 1) # 0) = big
        /\ (lit.v \div 2^IntWidth # 0) = bigger
        /\ (lit.v \div 2^(LongWidth - 1) # 0) = biggest
    BY <1>3, <1>4, <1>5, <1>7, <2>1, <2>2, <2>3, <2>4
  <2>6. t = IF lit.decimal
            THEN IF lit.l THEN IF lit.u THEN "ULong" ELSE "Long"
                 ELSE IF lit.u THEN IF bigger THEN "ULong" ELSE "UInt"
                 ELSE IF big THEN "Long" ELSE "Int"
            ELSE IF lit.l THEN IF lit.u \/ biggest THEN "ULong" ELSE "Long"
                 ELSE IF lit.u THEN IF bigger THEN "ULong" ELSE "UInt"
                 ELSE IF biggest THEN "ULong"
                 ELSE IF bigger THEN "Long"
                 ELSE IF big THEN "UInt" ELSE "Int"
    BY <2>5 DEF LiteralType
  <2> HIDE DEF t
  <2>7. QED
    BY <2>1, <2>2, <2>3, <2>6
<1>9. /\ CLiteralTypes[1] = "Int" /\ CLiteralTypes[2] = "UInt"
      /\ CLiteralTypes[3] = "Long" /\ CLiteralTypes[4] = "ULong" /\ DOMAIN CLiteralTypes = 1 .. 4
  BY DEF CLiteralTypes
<1>10. r = IF F = {} THEN CUndefined("Long") ELSE CValue(CLiteralTypes[Min(F)], v)
  BY <1>5, <1>9 DEF CLiteral
<1>11. \A i \in F : /\ i \in 1 .. 4 /\ Fits(CLiteralTypes[i], v)
                    /\ lit.u => CLiteralTypes[i] \in UnsignedTypes
                    /\ lit.l => Width(CLiteralTypes[i]) = LongWidth
                    /\ lit.decimal /\ ~lit.u => CLiteralTypes[i] \in SignedTypes
  OBVIOUS
<1>12. F # {} => Min(F) \in F /\ \A i \in F : Min(F) <= i
  <2>1. F \in SUBSET Nat
    BY <1>11
  <2> HIDE DEF F
  <2>2. F # {} => \E i \in F : \A j \in F : i <= j
    BY <2>1, NatSetMin
  <2>3. QED
    BY <2>2 DEF Min
<1>13. t \in {"Int", "UInt", "Long", "ULong"} /\ t \in IntegerTypes
  <2> HIDE DEF t
  <2>1. QED
    BY <1>8 DEF IntegerTypes, SignedTypes, UnsignedTypes
<1>14. CTyped(r)
  <2>1. CASE F = {}
    <3>1. r = CUndefined("Long")
      BY <1>10, <2>1
    <3>2. QED
      BY <3>1, CMadeTyped DEF IntegerTypes, SignedTypes
  <2>2. CASE F # {}
    <3>1. PICK i \in 1 .. 4 : i = Min(F) /\ Fits(CLiteralTypes[i], v)
      BY <1>11, <1>12, <2>2
    <3>2. PICK u \in IntegerTypes : u = CLiteralTypes[i]
      BY <1>9 DEF IntegerTypes, SignedTypes, UnsignedTypes
    <3>3. CTyped(CValue(u, v))
      BY <3>1, <3>2, CMadeTyped
    <3>4. r = CValue(u, v)
      BY <1>10, <2>2, <3>1, <3>2
    <3>5. QED
      BY <3>3, <3>4
  <2>3. QED
    BY <2>1, <2>2
<1>15. CASE t = "Int"
  <2>1. ~lit.u /\ ~lit.l /\ v < p
    <3> HIDE DEF t
    <3>1. QED
      BY <1>1, <1>3, <1>4, <1>8, <1>15
  <2>2. 1 \in F
    BY <1>6, <1>9, <2>1 DEF SignedTypes
  <2>3. Min(F) = 1
    <3> HIDE DEF F
    <3>1. QED
      BY <1>11, <1>12, <2>2
  <2>4. r = CValue("Int", v)
    BY <1>9, <1>10, <2>2, <2>3
  <2>5. r.ty = "Int" /\ r.v = v
    BY <2>4 DEF CValue
  <2>6. QED
    BY <1>5, <1>6, <1>13, <1>14, <1>15, <2>1, <2>5
<1>16. CASE t = "Long"
  <2>1. ~lit.u /\ (lit.decimal \/ v < q) /\ (lit.l \/ v >= p) /\ (lit.decimal \/ lit.l \/ v >= 2 * p)
    <3> HIDE DEF t
    <3>1. QED
      BY <1>1, <1>3, <1>4, <1>8, <1>16
  <2>2. 1 \notin F
    BY <1>1, <1>6, <1>9, <2>1, WidthsAre, WidthTable
  <2>3. 2 \notin F
    BY <1>1, <1>6, <1>9, <2>1, WidthsAre, WidthTable DEF SignedTypes
  <2>4. CASE v < q
    <3>1. 3 \in F
      BY <1>6, <1>9, <2>1, <2>4, WidthTable DEF SignedTypes
    <3>2. Min(F) = 3
      <4> HIDE DEF F
      <4>1. QED
        BY <1>11, <1>12, <2>2, <2>3, <3>1
    <3>3. r = CValue("Long", v)
      BY <1>9, <1>10, <3>1, <3>2
    <3>4. r.ty = "Long" /\ r.v = v
      BY <3>3 DEF CValue
    <3>5. QED
      BY <1>5, <1>6, <1>13, <1>14, <1>16, <2>4, <3>4
  <2>5. CASE ~(v < q)
    <3>1. 3 \notin F /\ 4 \notin F
      BY <1>6, <1>9, <2>1, <2>5 DEF SignedTypes
    <3>2. F = {}
      <4> HIDE DEF F
      <4>1. QED
        BY <1>11, <2>2, <2>3, <3>1
    <3>3. r = CUndefined("Long")
      BY <1>10, <3>2
    <3>4. r.ty = "Long" /\ ~r.defined
      BY <3>3 DEF CUndefined
    <3>5. QED
      BY <1>13, <1>14, <1>16, <3>4
  <2>6. QED
    BY <2>4, <2>5
<1>17. CASE t \in {"UInt", "ULong"}
  <2>1. t \notin SignedTypes
    BY <1>17 DEF SignedTypes
  <2>2. QED
    BY <1>13, <1>14, <2>1
<1>18. QED
  BY <1>13, <1>15, <1>16, <1>17

-----------------------------------------------------------------------------
(* Constants of the parser *)

\* c is an outcome of EvalConstant, whose number fits int64_t.
ConstTyped(c) == c \in [kind : {"int", "rejected", "undefined"}, v : Int] /\ Fits("Long", c.v)

\* A number of 64 bits is a constant.
LEMMA ConstantIs ==
  ASSUME NEW v, InWord(LongWidth, v)
  PROVE  /\ ConstTyped(Constant(v)) /\ Constant(v).kind = "int" /\ Constant(v).v = v
         /\ Int64(v) = Constant(v)
<1>1. v \in Int
  BY DEF InWord
<1>2. Fits("Long", v)
  BY <1>1, SignedFits, WidthTable DEF SignedTypes
<1>3. QED
  BY <1>1, <1>2 DEF ConstTyped, Constant, Int64

\* What the makers of constants make.
LEMMA ConstMade ==
  /\ ConstTyped(Rejected) /\ Rejected.kind = "rejected"
  /\ ConstTyped(Undefined) /\ Undefined.kind = "undefined"
  /\ \A v \in Int : ConstTyped(Int64(v)) /\ ConstTyped(Constant(SignedOf(LongWidth, v)))
<1>1. Fits("Long", 0)
  BY BitFits DEF IntegerTypes, SignedTypes
<1>2. ConstTyped(Rejected) /\ Rejected.kind = "rejected" /\ ConstTyped(Undefined) /\ Undefined.kind = "undefined"
  BY <1>1 DEF ConstTyped, Rejected, Undefined
<1>3. ASSUME NEW v \in Int
      PROVE  ConstTyped(Int64(v)) /\ ConstTyped(Constant(SignedOf(LongWidth, v)))
  <2>1. ConstTyped(Int64(v))
    BY <1>2 DEF Int64, Constant, ConstTyped
  <2>2. InWord(LongWidth, SignedOf(LongWidth, v))
    BY SignedIs, WidthsAre
  <2>3. QED
    BY <2>1, <2>2, ConstantIs
<1>4. QED
  BY <1>2, <1>3

\* A constant with a number is that of the number.
LEMMA IntIs ==
  ASSUME NEW c, ConstTyped(c), c.kind = "int"
  PROVE  c = Constant(c.v) /\ InWord(LongWidth, c.v)
<1>1. c = Constant(c.v)
  BY DEF ConstTyped, Constant
<1>2. c.v \in Int /\ Fits("Long", c.v)
  BY DEF ConstTyped
<1>3. QED
  BY <1>1, <1>2, SignedFits, WidthTable DEF SignedTypes

\* An operator with a result in a word has it in every wider one.
LEMMA ExactWider ==
  ASSUME NEW op, NEW a, NEW b \in Int, NEW w \in Widths, NEW u \in Widths, w <= u,
         InWord(w, a), Exact(op, a, b, w)
  PROVE  Exact(op, a, b, u)
BY ApplicableWider, WiderWord DEF Exact

\* Truths are numbers of 64 bits.
LEMMA TruthIs ==
  ASSUME NEW P \in BOOLEAN
  PROVE  Truth(P) \in {0, 1} /\ InWord(LongWidth, Truth(P)) /\ InWord(IntWidth, Truth(P))
         /\ ConstTyped(Constant(Truth(P)))
<1>1. Truth(P) \in {0, 1}
  BY DEF Truth
<1>2. LongWidth > 1 /\ LongWidth \in Widths /\ IntWidth > 1 /\ IntWidth \in Widths
  BY WidthsAre
<1>3. InWord(LongWidth, Truth(P)) /\ InWord(IntWidth, Truth(P))
  BY <1>1, <1>2, SmallInWord
<1>4. QED
  BY <1>1, <1>3, ConstantIs

\* The binary operators.
LEMMA EvalBinaryIs ==
  ASSUME NEW op \in BinaryOps, NEW l, NEW r, ConstTyped(l), ConstTyped(r)
  PROVE  LET e == EvalBinary(op, l, r)
         IN  /\ ConstTyped(e)
             /\ l.kind # "int" => e = l
             /\ l.kind = "int" /\ r.kind # "int" => e = r
             /\ l.kind = "int" /\ r.kind = "int" =>
                  /\ op \in ValueOps /\ Exact(op, l.v, r.v, LongWidth) => e = Constant(Apply(op, l.v, r.v))
                  /\ op \in Comparisons => e = Constant(Truth(Holds(op, l.v, r.v)))
                  /\ op = "logical_and" => e = Constant(Truth(l.v # 0 /\ r.v # 0))
                  /\ op = "logical_or" => e = Constant(Truth(l.v # 0 \/ r.v # 0))
                  /\ op = "comma" => e = r
<1> DEFINE e == EvalBinary(op, l, r)
<1>1. PICK a \in Int : a = l.v
  BY DEF ConstTyped
<1>2. PICK b \in Int : b = r.v
  BY DEF ConstTyped
<1>3. CASE l.kind # "int" \/ r.kind # "int"
  BY <1>3 DEF EvalBinary
<1>4. CASE l.kind = "int" /\ r.kind = "int" /\ op = "comma"
  <2>1. Applicable(op, a, b, LongWidth) /\ op \notin ValueOps /\ op \notin Comparisons
    BY <1>4 DEF Applicable, ValueOps, Arithmetic, Bitwise, Shifts, Comparisons
  <2>2. e = r
    BY <1>1, <1>2, <1>4, <2>1 DEF EvalBinary
  <2> HIDE DEF e
  <2>3. QED
    BY <1>4, <2>1, <2>2 DEF e
<1>5. CASE l.kind = "int" /\ r.kind = "int" /\ op \in Logical
  <2>1. /\ Applicable(op, a, b, LongWidth) /\ op \notin ValueOps /\ op \notin Comparisons
        /\ op # "comma" /\ op \in {"logical_and", "logical_or"}
    BY <1>5 DEF Applicable, ValueOps, Arithmetic, Bitwise, Shifts, Comparisons, Logical
  <2>2. /\ op = "logical_and" => e = Constant(Truth(a # 0 /\ b # 0))
        /\ op = "logical_or" => e = Constant(Truth(a # 0 \/ b # 0))
    BY <1>1, <1>2, <1>5, <2>1 DEF EvalBinary
  <2>3. ConstTyped(Constant(Truth(a # 0 /\ b # 0))) /\ ConstTyped(Constant(Truth(a # 0 \/ b # 0)))
    BY TruthIs
  <2> HIDE DEF e
  <2>4. QED
    BY <1>1, <1>2, <1>5, <2>1, <2>2, <2>3 DEF e
<1>6. CASE l.kind = "int" /\ r.kind = "int" /\ op \in Comparisons
  <2>1. /\ Applicable(op, a, b, LongWidth) /\ op \notin ValueOps /\ op \notin Logical
        /\ op # "comma" /\ op # "logical_and" /\ op # "logical_or" /\ op # "left_shift"
    BY <1>6 DEF Applicable, ValueOps, Arithmetic, Bitwise, Shifts, Comparisons, Logical
  <2>2. e = Constant(Truth(Holds(op, a, b)))
    BY <1>1, <1>2, <1>6, <2>1 DEF EvalBinary
  <2>3. PICK P \in BOOLEAN : Truth(P) = Truth(Holds(op, a, b))
    BY DEF Truth
  <2>4. ConstTyped(Constant(Truth(P)))
    BY TruthIs
  <2> HIDE DEF e
  <2>5. ConstTyped(e)
    BY <2>2, <2>3, <2>4
  <2>6. QED
    BY <1>1, <1>2, <1>6, <2>1, <2>2, <2>5 DEF e
<1>7. CASE l.kind = "int" /\ r.kind = "int" /\ op \in ValueOps
  <2>1. /\ op \notin Comparisons /\ op \notin Logical
        /\ op # "comma" /\ op # "logical_and" /\ op # "logical_or"
    BY <1>7 DEF ValueOps, Arithmetic, Bitwise, Shifts, Comparisons, Logical
  <2>2. CASE ~Applicable(op, a, b, LongWidth)
    <3>1. e = Undefined
      BY <1>1, <1>2, <1>7, <2>2 DEF EvalBinary
    <3>2. ~Exact(op, a, b, LongWidth)
      BY <2>2 DEF Exact
    <3> HIDE DEF e
    <3>3. QED
      BY <1>1, <1>2, <1>7, <2>1, <3>1, <3>2, ConstMade DEF e
  <2>3. CASE Applicable(op, a, b, LongWidth)
    <3>1. PICK v \in Int : v = Apply(op, a, b)
      BY <1>7, <2>3, ApplyIs, WidthsAre
    <3>2. e = IF op = "left_shift" THEN Constant(SignedOf(LongWidth, v)) ELSE Int64(v)
      BY <1>1, <1>2, <1>7, <2>1, <2>3, <3>1 DEF EvalBinary
    <3>3. ConstTyped(Constant(SignedOf(LongWidth, v))) /\ ConstTyped(Int64(v))
      BY ConstMade
    <3>4. InWord(LongWidth, v) => SignedOf(LongWidth, v) = v /\ Int64(v) = Constant(v)
      BY ConstantIs, SignedIs, WidthsAre
    <3>5. Exact(op, a, b, LongWidth) => InWord(LongWidth, v)
      BY <3>1 DEF Exact
    <3> HIDE DEF e
    <3>6. ConstTyped(e) /\ (Exact(op, a, b, LongWidth) => e = Constant(v))
      BY <3>2, <3>3, <3>4, <3>5
    <3>7. QED
      BY <1>1, <1>2, <1>7, <2>1, <3>1, <3>6 DEF e
  <2>4. QED
    BY <2>2, <2>3
<1>8. QED
  BY <1>3, <1>4, <1>5, <1>6, <1>7 DEF BinaryOps

\* The unary operators.
LEMMA EvalUnaryIs ==
  ASSUME NEW op \in UnaryOps, NEW c, ConstTyped(c)
  PROVE  LET e == EvalUnary(op, c)
         IN  /\ ConstTyped(e)
             /\ c.kind # "int" => e = c
             /\ c.kind = "int" =>
                  /\ op = "positive" => e = c
                  /\ op = "negative" /\ InWord(LongWidth, -c.v) => e = Constant(-c.v)
                  /\ op = "logical_not" => e = Constant(Truth(c.v = 0))
                  /\ op = "bitwise_not" => e = Constant(-c.v - 1)
<1> DEFINE e == EvalUnary(op, c)
<1>1. c.v \in Int /\ op \in {"positive", "negative", "logical_not", "bitwise_not"}
  BY DEF ConstTyped, UnaryOps
<1>2. CASE c.kind # "int"
  BY <1>2 DEF EvalUnary
<1>3. CASE c.kind = "int" /\ op = "positive"
  BY <1>3 DEF EvalUnary
<1>4. CASE c.kind = "int" /\ op = "negative"
  <2>1. PICK n \in Int : n = -c.v
    BY <1>1
  <2>2. e = Int64(n)
    BY <1>4, <2>1 DEF EvalUnary
  <2>3. ConstTyped(Int64(n)) /\ (InWord(LongWidth, n) => Int64(n) = Constant(n))
    BY ConstMade, ConstantIs
  <2> HIDE DEF e
  <2>4. QED
    BY <1>4, <2>1, <2>2, <2>3 DEF e
<1>5. CASE c.kind = "int" /\ op = "logical_not"
  <2>1. e = Constant(Truth(c.v = 0))
    BY <1>5 DEF EvalUnary
  <2>2. ConstTyped(Constant(Truth(c.v = 0)))
    BY TruthIs
  <2> HIDE DEF e
  <2>3. QED
    BY <1>5, <2>1, <2>2 DEF e
<1>6. CASE c.kind = "int" /\ op = "bitwise_not"
  <2>1. e = Constant(-c.v - 1)
    BY <1>6 DEF EvalUnary
  <2>2. InWord(LongWidth, -c.v - 1)
    BY <1>6, IntIs, ComplementInWord, WidthsAre
  <2>3. ConstTyped(Constant(-c.v - 1))
    BY <2>2, ConstantIs
  <2> HIDE DEF e
  <2>4. QED
    BY <1>6, <2>1, <2>3 DEF e
<1>7. QED
  BY <1>1, <1>2, <1>3, <1>4, <1>5, <1>6

\* Conversions.
LEMMA EvalCastIs ==
  ASSUME NEW t \in IntegerTypes, NEW c, ConstTyped(c)
  PROVE  LET e == EvalCast(t, c)
         IN  /\ ConstTyped(e)
             /\ c.kind # "int" => e = c
             /\ c.kind = "int" /\ t \in SignedTypes => e = Constant(Convert(t, c.v))
<1> DEFINE e == EvalCast(t, c)
<1>1. c.v \in Int
  BY DEF ConstTyped
<1>2. CASE c.kind # "int"
  BY <1>2 DEF EvalCast
<1>3. CASE c.kind = "int" /\ Width(t) = LongWidth
  <2>1. e = c
    BY <1>3 DEF EvalCast
  <2>2. c = Constant(c.v) /\ InWord(LongWidth, c.v)
    BY <1>3, IntIs
  <2>3. t \in SignedTypes => Convert(t, c.v) = c.v
    BY <1>1, <1>3, <2>2, SignedFits
  <2> HIDE DEF e
  <2>4. QED
    BY <1>3, <2>1, <2>2, <2>3 DEF e
<1>4. CASE c.kind = "int" /\ Width(t) # LongWidth
  <2>1. e = Constant(Convert(t, c.v))
    BY <1>4 DEF EvalCast
  <2>2. Width(t) < LongWidth
    BY <1>4, WidthIs, WidthsAre
  <2>3. Convert(t, c.v) \in Int /\ Fits(t, Convert(t, c.v))
    BY <1>1, ConvertFits
  <2>4. InWord(LongWidth, Convert(t, c.v))
    BY <2>2, <2>3, FitsLong
  <2>5. ConstTyped(Constant(Convert(t, c.v)))
    BY <2>4, ConstantIs
  <2> HIDE DEF e
  <2>6. QED
    BY <1>4, <2>1, <2>5 DEF e
<1>5. QED
  BY <1>2, <1>3, <1>4


-----------------------------------------------------------------------------
(* Nodes *)

\* Each reader has made something of its own type of the node.
NodeTyped(n) ==
    /\ n.shapes \subseteq Shapes => n \in Node
    /\ n.ty \in IntegerTypes /\ n.truth \in BOOLEAN
    /\ CTyped(n.ref) /\ IrTyped(n.ir) /\ ConstTyped(n.const)

\* Sema's type is signed and so is C's.
Signed(n) ==
    n.shapes \cap {"unsigned", "sizeof"} = {} => n.ty \in SignedTypes /\ n.ref.ty \in SignedTypes

\* The value of CodeGen has the width of C's type whether C defines it or not,
\* and C's number where C does.
GenRight(n) ==
    n.shapes \cap GenShapes = {} =>
      /\ Usable(n.ir) /\ n.ir.w = IF n.truth THEN 1 ELSE Width(n.ref.ty)
      /\ n.ref.defined => n.ir.kind = "value" /\ n.ir.v = IF n.truth THEN -n.ref.v ELSE n.ref.v

\* EvalConstant has C's number.
ConstRight(n) ==
    n.shapes \cap EvalShapes = {} /\ n.ref.defined /\ n.const.kind # "rejected" =>
      n.const = Constant(n.ref.v)

\* What EvalConstant takes for a constant IRBuilder folds to one.
FoldRight(n) ==
    /\ n.shapes \cap (GenShapes \cup EvalShapes \cup {"branch"}) = {}
    /\ n.ref.defined /\ n.const.kind # "rejected"
    => n.ir.folded

\* All that a node keeps: its types, and that CodeGen and EvalConstant agree with C on it.
NodeInv(n) == NodeTyped(n) /\ Signed(n) /\ GenRight(n) /\ ConstRight(n) /\ FoldRight(n)

\* A set of shapes that avoids those named in a property avoids each.
LEMMA ShapesFree ==
  ASSUME NEW S
  PROVE  /\ S \cap GenShapes = {} <=>
              /\ "unsigned" \notin S /\ "truth" \notin S /\ "wideLeft" \notin S /\ "wideShift" \notin S
              /\ "comma" \notin S /\ "semaType" \notin S /\ "narrowBranch" \notin S /\ "sizeof" \notin S
         /\ S \cap EvalShapes = {} <=>
              "unsigned" \notin S /\ "sizeof" \notin S /\ "unevaluated" \notin S
         /\ S \cap {"unsigned", "sizeof"} = {} <=> "unsigned" \notin S /\ "sizeof" \notin S
         /\ S \cap (GenShapes \cup EvalShapes \cup {"branch"}) = {} =>
              S \cap GenShapes = {} /\ S \cap EvalShapes = {} /\ "branch" \notin S
BY DEF GenShapes, EvalShapes

\* The types of a node without these shapes are signed.
LEMMA NodeSigned ==
  ASSUME NEW n, NodeInv(n), n.shapes \cap GenShapes = {} \/ n.shapes \cap EvalShapes = {}
  PROVE  n.ty \in SignedTypes /\ n.ref.ty \in SignedTypes
<1>1. PICK S : S = n.shapes
  OBVIOUS
<1>2. S \cap {"unsigned", "sizeof"} = {}
  BY <1>1, ShapesFree
<1>3. QED
  BY <1>1, <1>2 DEF NodeInv, Signed

\* A number.
LEMMA NumberRight ==
  ASSUME NEW lit \in Literals
  PROVE  NodeInv(NumberExpr(lit))
<1> DEFINE n == NumberExpr(lit)
<1>1. PICK v \in Nat : v = lit.v
  BY LiteralsAssumption
<1>2. PICK t \in IntegerTypes : t = LiteralType(lit)
  BY LiteralIs
<1>3. PICK r : r = CLiteral(lit)
  OBVIOUS
<1>4. CTyped(r) /\ (t \in SignedTypes => r.ty = t /\ (r.defined => r.v = v /\ Fits(t, v)))
  BY <1>1, <1>2, <1>3, LiteralIs
<1>5. PICK i : i = GenNumber(t, v)
  OBVIOUS
<1>6. PICK c : c = EvalNumber(v)
  OBVIOUS
<1>7. /\ n.ty = t /\ n.truth = FALSE /\ n.shapes = TypeShapes(t) /\ n.const = c /\ n.ir = i /\ n.ref = r
      /\ n = [ty |-> t, truth |-> FALSE, shapes |-> TypeShapes(t), const |-> c, ir |-> i, ref |-> r]
  BY <1>1, <1>2, <1>3, <1>5, <1>6 DEF NumberExpr
<1>8. /\ IrTyped(i) /\ Usable(i) /\ i.kind = "value" /\ i.w = Width(t) /\ i.folded = TRUE
      /\ InWord(Width(t), v) => i.v = v
  <2>1. PICK w \in ValueWidths : w = Width(t)
    BY WidthIs DEF ValueWidths
  <2>2. PICK yes \in BOOLEAN : yes = TRUE
    OBVIOUS
  <2>3. v \in Int
    OBVIOUS
  <2>4. /\ IrTyped(Value(w, v, yes)) /\ Usable(Value(w, v, yes)) /\ Value(w, v, yes).kind = "value"
        /\ Value(w, v, yes).w = w /\ Value(w, v, yes).folded = yes
        /\ InWord(w, v) => Value(w, v, yes).v = v
    BY <2>3, MadeTyped
  <2>5. i = Value(w, v, yes)
    BY <1>5, <2>1, <2>2 DEF GenNumber
  <2>6. QED
    BY <2>1, <2>2, <2>4, <2>5
<1>9. ConstTyped(c) /\ (InWord(LongWidth, v) => c = Constant(v))
  BY <1>6, ConstMade, SignedIs, WidthsAre DEF EvalNumber
<1>10. t \in SignedTypes /\ Fits(t, v) => InWord(Width(t), v) /\ InWord(LongWidth, v)
  BY SignedFits, FitsLong
<1>11. "unsigned" \notin TypeShapes(t) => t \in SignedTypes
  BY DEF TypeShapes, IntegerTypes
<1>12. n \in [ty : IntegerTypes, truth : BOOLEAN, shapes : {TypeShapes(t)},
              const : [kind : {"int", "rejected", "undefined"}, v : Int],
              ir : [kind : Kinds, w : Nat, v : Int, folded : BOOLEAN],
              ref : [ty : IntegerTypes, defined : BOOLEAN, v : Int]]
  BY <1>4, <1>7, <1>8, <1>9 DEF CTyped, IrTyped, ConstTyped
<1> HIDE DEF n
<1>13. NodeTyped(n)
  BY <1>4, <1>7, <1>8, <1>9, <1>12 DEF NodeTyped, Node
<1>14. Signed(n)
  BY <1>4, <1>7, <1>11, ShapesFree DEF Signed
<1>15. GenRight(n)
  <2>1. n.shapes \cap GenShapes = {} => t \in SignedTypes
    BY <1>7, <1>11, ShapesFree
  <2>2. QED
    BY <1>4, <1>7, <1>8, <1>10, <2>1 DEF GenRight
<1>16. ConstRight(n)
  <2>1. n.shapes \cap EvalShapes = {} => t \in SignedTypes
    BY <1>7, <1>11, ShapesFree
  <2>2. QED
    BY <1>4, <1>7, <1>9, <1>10, <2>1 DEF ConstRight
<1>17. FoldRight(n)
  BY <1>7, <1>8 DEF FoldRight
<1>18. QED
  BY <1>13, <1>14, <1>15, <1>16, <1>17 DEF NodeInv, n

\* A load of a variable.
LEMMA AccessIs ==
  ASSUME NEW t \in IntegerTypes, NEW v \in Int
  PROVE  LET i == GenVariableAccess(t, v)
         IN  IrTyped(i) /\ Usable(i) /\ i.kind = "value" /\ i.w = Width(t) /\ (InWord(Width(t), v) => i.v = v)
<1>1. PICK w \in ValueWidths : w = Width(t)
  BY WidthIs DEF ValueWidths
<1>2. PICK no \in BOOLEAN : no = FALSE
  OBVIOUS
<1>3. /\ IrTyped(Value(w, v, no)) /\ Usable(Value(w, v, no)) /\ Value(w, v, no).kind = "value"
      /\ Value(w, v, no).w = w /\ (InWord(w, v) => Value(w, v, no).v = v)
  BY MadeTyped
<1>4. GenVariableAccess(t, v) = Value(w, v, no)
  BY <1>1, <1>2 DEF GenVariableAccess
<1>5. QED
  BY <1>1, <1>3, <1>4

\* A variable.
LEMMA VariableRight ==
  ASSUME NEW x \in Variables
  PROVE  NodeInv(VariableAccessExpr(x))
<1> DEFINE n == VariableAccessExpr(x)
<1>1. PICK v \in Int : v = x.v
  BY VariablesAssumption
<1>2. PICK t \in IntegerTypes : t = x.ty
  BY VariablesAssumption
<1>3. Fits(t, v)
  BY <1>1, <1>2, VariablesAssumption
<1>4. PICK r : r = CValue(t, v)
  OBVIOUS
<1>5. CTyped(r) /\ r.ty = t /\ r.v = v
  BY <1>3, <1>4, CMadeTyped
<1>6. PICK i : i = GenVariableAccess(t, v)
  OBVIOUS
<1>7. /\ n.ty = t /\ n.truth = FALSE /\ n.shapes = TypeShapes(t) /\ n.const = Rejected /\ n.ir = i
      /\ n.ref = r
      /\ n = [ty |-> t, truth |-> FALSE, shapes |-> TypeShapes(t), const |-> Rejected, ir |-> i, ref |-> r]
  BY <1>1, <1>2, <1>4, <1>6 DEF VariableAccessExpr
<1>8. IrTyped(i) /\ Usable(i) /\ i.kind = "value" /\ i.w = Width(t) /\ (InWord(Width(t), v) => i.v = v)
  BY <1>6, AccessIs
<1>9. ConstTyped(Rejected) /\ Rejected.kind = "rejected"
  BY ConstMade
<1>10. t \in SignedTypes => InWord(Width(t), v)
  BY <1>3, SignedFits
<1>11. "unsigned" \notin TypeShapes(t) => t \in SignedTypes
  BY DEF TypeShapes, IntegerTypes
<1>12. n \in [ty : IntegerTypes, truth : BOOLEAN, shapes : {TypeShapes(t)},
              const : [kind : {"int", "rejected", "undefined"}, v : Int],
              ir : [kind : Kinds, w : Nat, v : Int, folded : BOOLEAN],
              ref : [ty : IntegerTypes, defined : BOOLEAN, v : Int]]
  BY <1>5, <1>7, <1>8, <1>9 DEF CTyped, IrTyped, ConstTyped
<1> HIDE DEF n
<1>13. NodeTyped(n)
  BY <1>5, <1>7, <1>8, <1>9, <1>12 DEF NodeTyped, Node
<1>14. Signed(n)
  BY <1>5, <1>7, <1>11, ShapesFree DEF Signed
<1>15. GenRight(n)
  <2>1. n.shapes \cap GenShapes = {} => t \in SignedTypes
    BY <1>7, <1>11, ShapesFree
  <2>2. QED
    BY <1>5, <1>7, <1>8, <1>10, <2>1 DEF GenRight
<1>16. ConstRight(n) /\ FoldRight(n)
  BY <1>7, <1>9 DEF ConstRight, FoldRight
<1>17. QED
  BY <1>13, <1>14, <1>15, <1>16 DEF NodeInv, n

\* The sizes are numbers of the types they have.
LEMMA SizeFits ==
  ASSUME NEW t \in IntegerTypes
  PROVE  Size(t) \in Int /\ Fits("ULong", Size(t)) /\ InWord(LongWidth, Size(t) \div 8)
<1>1. Size(t) \in {1, 2, 4, 8}
  BY DEF Size, IntegerTypes, SignedTypes, UnsignedTypes
<1>2. PICK n \in Nat : n = LongWidth /\ n > 4 /\ n \in Widths /\ n - 1 \in Widths
                     /\ n - 2 \in Widths /\ n - 3 \in Widths /\ n - 4 \in 0 .. LongWidth + 1
  BY WidthsAre DEF Widths
<1>3. 2^n = 2 * 2^(n - 1) /\ 2^(n - 1) = 2 * 2^((n - 1) - 1) /\ 2^(n - 2) = 2 * 2^((n - 2) - 1)
      /\ 2^(n - 3) = 2 * 2^((n - 3) - 1)
  BY <1>2, PowerStep
<1>4. (n - 1) - 1 = n - 2 /\ (n - 2) - 1 = n - 3 /\ (n - 3) - 1 = n - 4
  OBVIOUS
<1>5. 2^n = 2 * (2 * (2 * (2 * 2^(n - 4))))
  BY <1>3, <1>4
<1>6. PICK q \in Nat \ {0} : q = 2^(n - 4)
  BY <1>2, PowerPositive
<1>7. 2^LongWidth \in Nat /\ 16 <= 2^LongWidth
  BY <1>2, <1>5, <1>6
<1>8. Size(t) \in 0 .. 2^LongWidth - 1
  BY <1>1, <1>7
<1>9. Fits("ULong", Size(t))
  BY <1>1, <1>8, UnsignedFits, WidthTable DEF UnsignedTypes
<1>10. Size(t) \div 8 \in {0, 1}
  BY <1>1
<1>11. InWord(LongWidth, 0) /\ InWord(LongWidth, 1)
  BY <1>2, SmallInWord
<1>12. QED
  BY <1>1, <1>9, <1>10, <1>11

\* A sizeof.
LEMMA SizeOfRight ==
  ASSUME NEW t \in IntegerTypes, NEW ct \in IntegerTypes
  PROVE  NodeInv(SizeOfExpr(t, ct))
<1> DEFINE n == SizeOfExpr(t, ct)
<1>1. PICK i : i = GenSizeOf(t)
  OBVIOUS
<1>2. PICK r : r = CValue("ULong", Size(ct))
  OBVIOUS
<1>3. PICK c : c = EvalSizeOf(t)
  OBVIOUS
<1>4. /\ n.ty = "Int" /\ n.truth = FALSE /\ n.shapes = {"sizeof"} /\ n.const = c /\ n.ir = i /\ n.ref = r
      /\ n = [ty |-> "Int", truth |-> FALSE, shapes |-> {"sizeof"}, const |-> c, ir |-> i, ref |-> r]
  BY <1>1, <1>2, <1>3 DEF SizeOfExpr
<1>5. IrTyped(i)
  <2>1. PICK w \in ValueWidths : w = IntWidth
    BY DEF ValueWidths
  <2>2. PICK yes \in BOOLEAN : yes = TRUE
    OBVIOUS
  <2>3. PICK s \in Int : s = Size(t)
    BY SizeFits
  <2>4. IrTyped(Value(w, s, yes))
    BY MadeTyped
  <2>5. QED
    BY <1>1, <2>1, <2>2, <2>3, <2>4 DEF GenSizeOf
<1>6. CTyped(r)
  <2>1. PICK s \in Int : s = Size(ct) /\ Fits("ULong", s)
    BY SizeFits
  <2>2. "ULong" \in IntegerTypes
    BY DEF IntegerTypes, UnsignedTypes
  <2>3. CTyped(CValue("ULong", s))
    BY <2>1, <2>2, CMadeTyped
  <2>4. QED
    BY <1>2, <2>1, <2>3
<1>7. ConstTyped(c)
  BY <1>3, SizeFits, ConstantIs DEF EvalSizeOf
<1>8. n \in [ty : IntegerTypes, truth : BOOLEAN, shapes : {{"sizeof"}},
             const : [kind : {"int", "rejected", "undefined"}, v : Int],
             ir : [kind : Kinds, w : Nat, v : Int, folded : BOOLEAN],
             ref : [ty : IntegerTypes, defined : BOOLEAN, v : Int]]
  BY <1>4, <1>5, <1>6, <1>7 DEF CTyped, IrTyped, ConstTyped, IntegerTypes, SignedTypes
<1> HIDE DEF n
<1>9. NodeTyped(n)
  BY <1>4, <1>5, <1>6, <1>7, <1>8 DEF NodeTyped, Node
<1>10. Signed(n) /\ GenRight(n) /\ ConstRight(n) /\ FoldRight(n)
  BY <1>4, ShapesFree DEF Signed, GenRight, ConstRight, FoldRight
<1>11. QED
  BY <1>9, <1>10 DEF NodeInv, n


\* A unary expression, whose operand Sema takes for an int.
LEMMA UnaryRight ==
  ASSUME NEW op \in UnaryOps, NEW x, NodeInv(x), x.ty = "Int"
  PROVE  NodeInv(UnaryExpr(op, x))
<1> DEFINE n == UnaryExpr(op, x)
<1>1. PICK S : S = x.shapes \cup UnaryShapes(x)
  OBVIOUS
<1>2. PICK c : c = EvalUnary(op, x.const)
  OBVIOUS
<1>3. PICK i : i = GenUnary(op, x.ir)
  OBVIOUS
<1>4. PICK r : r = CUnary(op, x.ref)
  OBVIOUS
<1>5. /\ n.ty = "Int" /\ n.truth = FALSE /\ n.shapes = S /\ n.const = c /\ n.ir = i /\ n.ref = r
      /\ n = [ty |-> "Int", truth |-> FALSE, shapes |-> S, const |-> c, ir |-> i, ref |-> r]
  BY <1>1, <1>2, <1>3, <1>4 DEF UnaryExpr
<1>6. CTyped(x.ref) /\ IrTyped(x.ir) /\ ConstTyped(x.const) /\ x.truth \in BOOLEAN
  BY DEF NodeInv, NodeTyped
<1>7. CTyped(r) /\ IrTyped(i) /\ ConstTyped(c)
  BY <1>2, <1>3, <1>4, <1>6, CUnaryIs, UnaryIs, EvalUnaryIs
<1>8. n \in [ty : IntegerTypes, truth : BOOLEAN, shapes : {S},
             const : [kind : {"int", "rejected", "undefined"}, v : Int],
             ir : [kind : Kinds, w : Nat, v : Int, folded : BOOLEAN],
             ref : [ty : IntegerTypes, defined : BOOLEAN, v : Int]]
  BY <1>5, <1>7 DEF CTyped, IrTyped, ConstTyped, IntegerTypes, SignedTypes
<1> HIDE DEF n
<1>9. NodeTyped(n)
  BY <1>5, <1>7, <1>8 DEF NodeTyped, Node, IntegerTypes, SignedTypes
<1>10. /\ S \cap GenShapes = {} => x.shapes \cap GenShapes = {} /\ ~x.truth /\ x.ref.ty = "Int"
       /\ S \cap EvalShapes = {} => x.shapes \cap EvalShapes = {}
       /\ S \cap {"unsigned", "sizeof"} = {} => x.shapes \cap {"unsigned", "sizeof"} = {}
       /\ S \cap (GenShapes \cup EvalShapes \cup {"branch"}) = {} =>
            x.shapes \cap (GenShapes \cup EvalShapes \cup {"branch"}) = {}
  <2>1. S \cap GenShapes = {} => "truth" \notin S /\ "semaType" \notin S
    BY ShapesFree
  <2>2. ("truth" \notin S => ~x.truth) /\ ("semaType" \notin S => x.ref.ty = "Int")
    BY <1>1 DEF UnaryShapes
  <2>3. x.shapes \subseteq S
    BY <1>1
  <2>4. QED
    BY <2>1, <2>2, <2>3
<1>11. /\ r.ty = IF op = "logical_not" THEN "Int" ELSE CPromote(x.ref.ty)
       /\ x.ref.ty \in SignedTypes => r.ty \in SignedTypes
  BY <1>4, <1>6, CUnaryIs, PromoteIs DEF CTyped, SignedTypes
<1>12. Signed(n)
  BY <1>5, <1>10, <1>11 DEF Signed, NodeInv, SignedTypes
<1>13. ASSUME r.defined, x.ref.ty \in SignedTypes
       PROVE  /\ x.ref.defined
              /\ op = "positive" => r.v = x.ref.v
              /\ op = "negative" => r.v = -x.ref.v /\ InWord(Width(r.ty), -x.ref.v)
              /\ op = "logical_not" => r.v = Truth(x.ref.v = 0)
              /\ op = "bitwise_not" => r.v = -x.ref.v - 1
  BY <1>4, <1>6, <1>13, CUnaryIs
<1>14. op \in {"positive", "negative", "logical_not", "bitwise_not"}
  BY DEF UnaryOps
<1>15. S \cap GenShapes = {} =>
         /\ Usable(i) /\ i.w = Width(r.ty)
         /\ r.defined => i.kind = "value" /\ i.v = r.v /\ i.folded = x.ir.folded
  <2> SUFFICES ASSUME S \cap GenShapes = {}
               PROVE  /\ Usable(i) /\ i.w = Width(r.ty)
                      /\ r.defined => i.kind = "value" /\ i.v = r.v /\ i.folded = x.ir.folded
    OBVIOUS
  <2>1. x.ref.ty = "Int" /\ "Int" \in SignedTypes /\ "Int" \in IntegerTypes
    BY <1>10 DEF SignedTypes, IntegerTypes
  <2>2. /\ Usable(x.ir) /\ x.ir.w = IntWidth
        /\ x.ref.defined => x.ir.kind = "value" /\ x.ir.v = x.ref.v
    BY <1>10, <2>1, WidthTable DEF NodeInv, GenRight
  <2>3. r.ty = "Int"
    <3>1. IntWidth <= Width("Int")
      BY WidthTable, WidthsAre
    <3>2. CPromote("Int") = "Int"
      BY <2>1, <3>1, PromoteIs
    <3>3. QED
      BY <1>11, <2>1, <3>2
  <2>4. /\ Usable(i) /\ i.w = IntWidth
        /\ x.ir.kind = "value" =>
             /\ i.kind = "value" /\ i.folded = x.ir.folded
             /\ op = "positive" => i.v = x.ir.v
             /\ op = "negative" => i.v = SignedOf(x.ir.w, -x.ir.v)
             /\ op = "logical_not" => i.v = Truth(x.ir.v = 0)
             /\ op = "bitwise_not" => i.v = -x.ir.v - 1
    BY <1>3, <1>6, <2>2, UnaryIs
  <2>5. ASSUME r.defined, op = "negative" PROVE i.v = r.v
    <3>1. r.v = -x.ref.v /\ InWord(IntWidth, -x.ref.v) /\ x.ref.defined
      BY <1>13, <2>1, <2>3, <2>5, WidthTable
    <3>2. -x.ref.v \in Int
      BY <3>1 DEF InWord
    <3>3. SignedOf(IntWidth, -x.ref.v) = -x.ref.v
      BY <3>1, <3>2, SignedIs, WidthsAre
    <3>4. QED
      BY <2>2, <2>4, <2>5, <3>1, <3>3
  <2>6. ASSUME r.defined, op # "negative" PROVE i.v = r.v
    BY <1>13, <1>14, <2>1, <2>2, <2>4, <2>6
  <2>7. QED
    BY <1>13, <2>1, <2>2, <2>3, <2>4, <2>5, <2>6, WidthTable
<1>16. GenRight(n)
  BY <1>5, <1>15 DEF GenRight
<1>17. S \cap EvalShapes = {} /\ r.defined /\ c.kind # "rejected" =>
         c = Constant(r.v) /\ x.ref.defined /\ x.const.kind # "rejected"
  <2> SUFFICES ASSUME S \cap EvalShapes = {}, r.defined, c.kind # "rejected"
               PROVE  c = Constant(r.v) /\ x.ref.defined /\ x.const.kind # "rejected"
    OBVIOUS
  <2>1. x.ref.ty \in SignedTypes /\ x.ref.ty \in IntegerTypes
    BY <1>6, <1>10, NodeSigned DEF CTyped
  <2>2. x.const.kind # "rejected"
    BY <1>2, <1>6, EvalUnaryIs
  <2>3. x.const = Constant(x.ref.v) /\ x.ref.defined
    BY <1>10, <1>13, <2>1, <2>2 DEF NodeInv, ConstRight
  <2>4. x.const.kind = "int" /\ x.const.v = x.ref.v
    BY <2>3 DEF Constant
  <2>5. /\ op = "positive" => c = x.const
        /\ op = "negative" /\ InWord(LongWidth, -x.const.v) => c = Constant(-x.const.v)
        /\ op = "logical_not" => c = Constant(Truth(x.const.v = 0))
        /\ op = "bitwise_not" => c = Constant(-x.const.v - 1)
    BY <1>2, <1>6, <2>4, EvalUnaryIs
  <2>6. op = "negative" => InWord(LongWidth, -x.ref.v)
    <3>1. r.ty \in IntegerTypes
      BY <1>7 DEF CTyped
    <3>2. Width(r.ty) \in Widths /\ Width(r.ty) <= LongWidth /\ LongWidth \in Widths
      BY <3>1, WidthIs, WidthsAre
    <3>3. QED
      BY <1>13, <2>1, <3>2, WiderWord
  <2>7. QED
    BY <1>13, <1>14, <2>1, <2>2, <2>3, <2>4, <2>5, <2>6
<1>18. ConstRight(n)
  BY <1>5, <1>17 DEF ConstRight
<1>19. FoldRight(n)
  <2>1. S \cap (GenShapes \cup EvalShapes \cup {"branch"}) = {} =>
          S \cap GenShapes = {} /\ S \cap EvalShapes = {}
    BY ShapesFree
  <2>2. QED
    BY <1>5, <1>10, <1>15, <1>17, <2>1 DEF FoldRight, NodeInv
<1>20. QED
  BY <1>9, <1>12, <1>16, <1>18, <1>19 DEF NodeInv, n

\* A conversion.
LEMMA CastRight ==
  ASSUME NEW t \in IntegerTypes, NEW x, NodeInv(x)
  PROVE  NodeInv(CastExpr(t, x))
<1> DEFINE n == CastExpr(t, x)
<1>1. PICK S : S = x.shapes \cup TypeShapes(t) \cup {s \in {"truth"} : x.truth}
  OBVIOUS
<1>2. PICK c : c = EvalCast(t, x.const)
  OBVIOUS
<1>3. PICK i : i = GenCast(t, x.ir)
  OBVIOUS
<1>4. PICK r : r = CCast(t, x.ref)
  OBVIOUS
<1>5. /\ n.ty = t /\ n.truth = FALSE /\ n.shapes = S /\ n.const = c /\ n.ir = i /\ n.ref = r
      /\ n = [ty |-> t, truth |-> FALSE, shapes |-> S, const |-> c, ir |-> i, ref |-> r]
  BY <1>1, <1>2, <1>3, <1>4 DEF CastExpr
<1>6. CTyped(x.ref) /\ IrTyped(x.ir) /\ ConstTyped(x.const) /\ x.truth \in BOOLEAN
  BY DEF NodeInv, NodeTyped
<1>7. CTyped(r) /\ r.ty = t /\ (r.defined => x.ref.defined /\ r.v = Convert(t, x.ref.v))
  BY <1>4, <1>6, CCastIs
<1>8. /\ IrTyped(i) /\ (Usable(x.ir) => Usable(i) /\ i.w = Width(t))
      /\ x.ir.kind = "value" =>
           i.kind = "value" /\ i.v = SignedOf(Width(t), x.ir.v) /\ i.folded = x.ir.folded
  <2>1. PICK w \in ValueWidths : w = Width(t)
    BY WidthIs DEF ValueWidths
  <2>2. CASE ~Usable(x.ir)
    <3>1. i = Broken
      BY <1>3, <2>2 DEF GenCast
    <3>2. x.ir.kind # "value"
      BY <2>2 DEF Usable
    <3>3. QED
      BY <2>2, <3>1, <3>2, MadeTyped
  <2>3. CASE Usable(x.ir)
    <3>1. i = AssignCast(x.ir, w)
      BY <1>3, <2>1, <2>3 DEF GenCast
    <3>2. /\ IrTyped(AssignCast(x.ir, w)) /\ Usable(AssignCast(x.ir, w)) /\ AssignCast(x.ir, w).w = w
          /\ AssignCast(x.ir, w).kind = x.ir.kind
          /\ x.ir.kind = "value" => /\ AssignCast(x.ir, w).v = SignedOf(w, x.ir.v)
                                    /\ AssignCast(x.ir, w).folded = x.ir.folded
      BY <1>6, <2>3, AssignCastIs
    <3>3. QED
      BY <2>1, <3>1, <3>2
  <2>4. QED
    BY <2>2, <2>3
<1>9. ConstTyped(c)
  BY <1>2, <1>6, EvalCastIs
<1>10. n \in [ty : IntegerTypes, truth : BOOLEAN, shapes : {S},
              const : [kind : {"int", "rejected", "undefined"}, v : Int],
              ir : [kind : Kinds, w : Nat, v : Int, folded : BOOLEAN],
              ref : [ty : IntegerTypes, defined : BOOLEAN, v : Int]]
  BY <1>5, <1>7, <1>8, <1>9 DEF CTyped, IrTyped, ConstTyped
<1> HIDE DEF n
<1>11. NodeTyped(n)
  BY <1>5, <1>7, <1>8, <1>9, <1>10 DEF NodeTyped, Node
<1>12. /\ "unsigned" \notin S => t \in SignedTypes
       /\ "truth" \notin S => ~x.truth
       /\ x.shapes \subseteq S
  BY <1>1, <1>6 DEF TypeShapes, IntegerTypes
<1>13. Signed(n)
  BY <1>5, <1>7, <1>12 DEF Signed
<1>14. S \cap GenShapes = {} =>
         /\ Usable(i) /\ i.w = Width(t)
         /\ r.defined => i.kind = "value" /\ i.v = r.v /\ i.folded = x.ir.folded
  <2> SUFFICES ASSUME S \cap GenShapes = {}
               PROVE  /\ Usable(i) /\ i.w = Width(t)
                      /\ r.defined => i.kind = "value" /\ i.v = r.v /\ i.folded = x.ir.folded
    OBVIOUS
  <2>1. t \in SignedTypes /\ ~x.truth /\ x.shapes \cap GenShapes = {}
    BY <1>12, ShapesFree
  <2>2. Usable(x.ir) /\ (x.ref.defined => x.ir.kind = "value" /\ x.ir.v = x.ref.v)
    BY <2>1 DEF NodeInv, GenRight
  <2>3. x.ref.v \in Int
    BY <1>6 DEF CTyped
  <2>4. Convert(t, x.ref.v) = SignedOf(Width(t), x.ref.v)
    BY <2>1, <2>3, SignedFits
  <2>5. QED
    BY <1>7, <1>8, <2>2, <2>4
<1>15. GenRight(n)
  BY <1>5, <1>7, <1>14 DEF GenRight
<1>16. S \cap EvalShapes = {} /\ r.defined /\ c.kind # "rejected" =>
         c = Constant(r.v) /\ x.const.kind # "rejected"
  <2> SUFFICES ASSUME S \cap EvalShapes = {}, r.defined, c.kind # "rejected"
               PROVE  c = Constant(r.v) /\ x.const.kind # "rejected"
    OBVIOUS
  <2>1. t \in SignedTypes /\ x.shapes \cap EvalShapes = {}
    BY <1>12, ShapesFree
  <2>2. x.const.kind # "rejected"
    BY <1>2, <1>6, EvalCastIs
  <2>3. x.const = Constant(x.ref.v)
    BY <1>7, <2>1, <2>2 DEF NodeInv, ConstRight
  <2>4. x.const.kind = "int" /\ x.const.v = x.ref.v
    BY <2>3 DEF Constant
  <2>5. c = Constant(Convert(t, x.const.v))
    BY <1>2, <1>6, <2>1, <2>4, EvalCastIs
  <2>6. QED
    BY <1>7, <2>2, <2>4, <2>5
<1>17. ConstRight(n)
  BY <1>5, <1>16 DEF ConstRight
<1>18. FoldRight(n)
  <2>1. S \cap (GenShapes \cup EvalShapes \cup {"branch"}) = {} =>
          /\ S \cap GenShapes = {} /\ S \cap EvalShapes = {}
          /\ x.shapes \cap (GenShapes \cup EvalShapes \cup {"branch"}) = {}
    BY <1>12, ShapesFree
  <2>2. QED
    BY <1>5, <1>7, <1>14, <1>16, <2>1 DEF FoldRight, NodeInv
<1>19. QED
  BY <1>11, <1>13, <1>15, <1>17, <1>18 DEF NodeInv, n

\* The three operands of a conditional expression, by EvalConstant.
LEMMA EvalThreeIs ==
  ASSUME NEW a, NEW b, NEW d, ConstTyped(a), ConstTyped(b), ConstTyped(d)
  PROVE  LET e == EvalThree(a, b, d)
         IN  /\ ConstTyped(e)
             /\ a.kind # "int" => e = a
             /\ a.kind = "int" /\ b.kind # "int" => e = b
             /\ a.kind = "int" /\ b.kind = "int" /\ d.kind # "int" => e = d
             /\ a.kind = "int" /\ b.kind = "int" /\ d.kind = "int" => e = IF a.v # 0 THEN b ELSE d
BY DEF EvalThree

\* A conditional expression, whose branches Sema takes to be of one type.
LEMMA ThreeRight ==
  ASSUME NEW x, NEW y, NEW z, NodeInv(x), NodeInv(y), NodeInv(z), y.ty = z.ty
  PROVE  NodeInv(ThreeExpr(x, y, z))
<1> DEFINE n == ThreeExpr(x, y, z)
<1>1. PICK S : S = x.shapes \cup y.shapes \cup z.shapes \cup ThreeShapes(x, y, z)
  OBVIOUS
<1>2. PICK c : c = EvalThree(x.const, y.const, z.const)
  OBVIOUS
<1>3. PICK i : i = GenThree(BoolCast(x.ir), y.ir, z.ir, y.ty)
  OBVIOUS
<1>4. PICK r : r = CConditional(x.ref, y.ref, z.ref)
  OBVIOUS
<1>5. PICK t : t = y.ty
  OBVIOUS
<1>6. /\ n.ty = t /\ n.truth = FALSE /\ n.shapes = S /\ n.const = c /\ n.ir = i /\ n.ref = r
      /\ n = [ty |-> t, truth |-> FALSE, shapes |-> S, const |-> c, ir |-> i, ref |-> r]
  BY <1>1, <1>2, <1>3, <1>4, <1>5 DEF ThreeExpr
<1>7. /\ CTyped(x.ref) /\ IrTyped(x.ir) /\ ConstTyped(x.const) /\ x.truth \in BOOLEAN
      /\ CTyped(y.ref) /\ IrTyped(y.ir) /\ ConstTyped(y.const) /\ y.truth \in BOOLEAN
      /\ CTyped(z.ref) /\ IrTyped(z.ir) /\ ConstTyped(z.const) /\ z.truth \in BOOLEAN
      /\ t \in IntegerTypes
  BY <1>5 DEF NodeInv, NodeTyped
<1>8. /\ y.ref.ty \in IntegerTypes /\ z.ref.ty \in IntegerTypes
      /\ y.ref.defined \in BOOLEAN /\ z.ref.defined \in BOOLEAN
  BY <1>7 DEF CTyped
<1>9. PICK b : b = BoolCast(x.ir)
  OBVIOUS
<1>10. /\ IrTyped(b) /\ (Usable(b) <=> Usable(x.ir))
       /\ x.ir.kind = "value" => b.kind = "value" /\ b.v = -Truth(x.ir.v # 0)
  BY <1>7, <1>9, BoolCastIs DEF Usable
<1>11. CTyped(r) /\ IrTyped(i) /\ ConstTyped(c)
  BY <1>2, <1>3, <1>4, <1>5, <1>7, <1>9, <1>10, CConditionalIs, ThreeIs, EvalThreeIs
<1>12. n \in [ty : IntegerTypes, truth : BOOLEAN, shapes : {S},
              const : [kind : {"int", "rejected", "undefined"}, v : Int],
              ir : [kind : Kinds, w : Nat, v : Int, folded : BOOLEAN],
              ref : [ty : IntegerTypes, defined : BOOLEAN, v : Int]]
  BY <1>6, <1>7, <1>11 DEF CTyped, IrTyped, ConstTyped
<1> HIDE DEF n
<1>13. NodeTyped(n)
  BY <1>6, <1>7, <1>11, <1>12 DEF NodeTyped, Node
<1>14. /\ x.shapes \subseteq S /\ y.shapes \subseteq S /\ z.shapes \subseteq S /\ "branch" \in S
       /\ "truth" \notin S => ~y.truth /\ ~z.truth
       /\ "semaType" \notin S => y.ref.ty = t /\ z.ref.ty = t
       /\ "narrowBranch" \notin S => ~(Width(y.ref.ty) < IntWidth)
       /\ "unevaluated" \notin S => y.ref.defined /\ z.ref.defined
  BY <1>1, <1>5, <1>7, <1>8 DEF ThreeShapes, UnaryShapes
<1>15. r.ty = CCommon(y.ref.ty, z.ref.ty)
  BY <1>4, <1>7, CConditionalIs
<1>16. /\ r.defined => x.ref.defined
       /\ r.defined /\ x.ref.v # 0 => y.ref.defined
       /\ r.defined /\ x.ref.v = 0 => z.ref.defined
       /\ r.defined /\ y.ref.ty \in SignedTypes /\ z.ref.ty \in SignedTypes =>
            r.v = IF x.ref.v # 0 THEN y.ref.v ELSE z.ref.v
  BY <1>4, <1>7, CConditionalIs
<1>17. Signed(n)
  <2>1. SUFFICES ASSUME S \cap {"unsigned", "sizeof"} = {}
                 PROVE  t \in SignedTypes /\ r.ty \in SignedTypes
    BY <1>6 DEF Signed
  <2>2. t \in SignedTypes /\ y.ref.ty \in SignedTypes /\ z.ref.ty \in SignedTypes
    BY <1>5, <1>14, <2>1 DEF NodeInv, Signed
  <2>3. QED
    BY <1>8, <1>15, <2>2, CommonIs
<1>18. GenRight(n)
  <2>1. SUFFICES ASSUME S \cap GenShapes = {}
                 PROVE  /\ Usable(i) /\ i.w = Width(r.ty)
                        /\ r.defined => i.kind = "value" /\ i.v = r.v
    BY <1>6 DEF GenRight
  <2>2. /\ x.shapes \cap GenShapes = {} /\ y.shapes \cap GenShapes = {} /\ z.shapes \cap GenShapes = {}
        /\ ~y.truth /\ ~z.truth /\ y.ref.ty = t /\ z.ref.ty = t /\ ~(Width(t) < IntWidth)
    BY <1>14, <2>1, ShapesFree
  <2>3. t \in SignedTypes
    BY <1>5, <2>2, NodeSigned
  <2>4. /\ Width(t) \in Nat /\ IntWidth \in Nat /\ IntWidth <= Width(t)
        /\ CPromote(t) = t /\ r.ty = t
    <3>1. t \in IntegerTypes
      BY <1>7
    <3>2. Width(t) \in Nat /\ IntWidth \in Nat /\ IntWidth <= Width(t)
      BY <2>2, <3>1, WidthIs, WidthsAre
    <3>3. CPromote(t) = t
      BY <3>1, <3>2, PromoteIs
    <3>4. CCommon(t, t) \in {CPromote(t), CPromote(t)}
      BY <3>1, CommonIs
    <3>5. QED
      BY <1>15, <2>2, <3>2, <3>3, <3>4
  <2>5. /\ Usable(y.ir) /\ y.ir.w = Width(t) /\ (y.ref.defined => y.ir.kind = "value" /\ y.ir.v = y.ref.v)
        /\ Usable(z.ir) /\ z.ir.w = Width(t) /\ (z.ref.defined => z.ir.kind = "value" /\ z.ir.v = z.ref.v)
    BY <2>2 DEF NodeInv, GenRight
  <2>6. Usable(x.ir) /\ (x.ref.defined => x.ir.kind = "value"
                           /\ x.ir.v = IF x.truth THEN -x.ref.v ELSE x.ref.v)
    BY <2>2 DEF NodeInv, GenRight
  <2>7. x.ref.v \in Int
    BY <1>7 DEF CTyped
  <2>8. x.ref.defined => b.kind = "value" /\ (b.v = 0 <=> x.ref.v = 0)
    <3>1. x.ref.defined => (x.ir.v = 0 <=> x.ref.v = 0)
      BY <2>6, <2>7
    <3>2. (x.ir.v = 0 /\ Truth(x.ir.v # 0) = 0) \/ (x.ir.v # 0 /\ Truth(x.ir.v # 0) = 1)
      BY DEF Truth
    <3>3. x.ref.defined => b.kind = "value" /\ b.v = -Truth(x.ir.v # 0)
      BY <1>10, <2>6
    <3>4. -Truth(x.ir.v # 0) = 0 <=> x.ir.v = 0
      BY <3>2
    <3>5. QED
      BY <3>1, <3>3, <3>4
  <2>9. /\ Usable(i) /\ i.w = Width(t)
        /\ b.kind = "value" /\ b.v # 0 /\ y.ir.kind = "value" => i.kind = "value" /\ i.v = y.ir.v
        /\ b.kind = "value" /\ b.v = 0 /\ z.ir.kind = "value" => i.kind = "value" /\ i.v = z.ir.v
    <3>1. PICK d : d = y.ir
      OBVIOUS
    <3>2. PICK e : e = z.ir
      OBVIOUS
    <3>3. IrTyped(b) /\ IrTyped(d) /\ IrTyped(e) /\ t \in IntegerTypes /\ i = GenThree(b, d, e, t)
      BY <1>3, <1>5, <1>7, <1>9, <1>10, <3>1, <3>2
    <3>4. Usable(b) /\ Usable(d) /\ Usable(e) /\ d.w = Width(t) /\ e.w = d.w /\ IntWidth <= d.w
      BY <1>10, <2>4, <2>5, <2>6, <3>1, <3>2
    <3>5. /\ Usable(i) /\ i.w = Width(t)
          /\ b.kind = "value" /\ b.v # 0 /\ d.kind = "value" => i.kind = "value" /\ i.v = d.v
          /\ b.kind = "value" /\ b.v = 0 /\ e.kind = "value" => i.kind = "value" /\ i.v = e.v
      BY <3>3, <3>4, ThreeIs
    <3>6. QED
      BY <3>1, <3>2, <3>5
  <2>10. r.defined => i.kind = "value" /\ i.v = r.v
    BY <1>16, <2>2, <2>3, <2>5, <2>8, <2>9
  <2>11. QED
    BY <2>4, <2>9, <2>10
<1>19. ConstRight(n)
  <2>1. SUFFICES ASSUME S \cap EvalShapes = {}, r.defined, c.kind # "rejected"
                 PROVE  c = Constant(r.v)
    BY <1>6 DEF ConstRight
  <2>2. /\ x.shapes \cap EvalShapes = {} /\ y.shapes \cap EvalShapes = {} /\ z.shapes \cap EvalShapes = {}
        /\ x.ref.defined /\ y.ref.defined /\ z.ref.defined
    BY <1>14, <1>16, <2>1, ShapesFree
  <2>3. y.ref.ty \in SignedTypes /\ z.ref.ty \in SignedTypes
    BY <2>2, NodeSigned
  <2>4. x.const.kind # "rejected" => x.const = Constant(x.ref.v)
    BY <2>2 DEF NodeInv, ConstRight
  <2>5. y.const.kind # "rejected" => y.const = Constant(y.ref.v)
    BY <2>2 DEF NodeInv, ConstRight
  <2>6. z.const.kind # "rejected" => z.const = Constant(z.ref.v)
    BY <2>2 DEF NodeInv, ConstRight
  <2>7. \A v : Constant(v).kind = "int" /\ Constant(v).v = v
    BY DEF Constant
  <2>8. x.const = Constant(x.ref.v)
    BY <1>2, <1>7, <2>1, <2>4, EvalThreeIs
  <2>9. x.const.kind = "int" /\ x.const.v = x.ref.v
    BY <2>7, <2>8
  <2>10. y.const = Constant(y.ref.v)
    BY <1>2, <1>7, <2>1, <2>5, <2>9, EvalThreeIs
  <2>11. y.const.kind = "int"
    BY <2>7, <2>10
  <2>12. z.const = Constant(z.ref.v)
    BY <1>2, <1>7, <2>1, <2>6, <2>9, <2>11, EvalThreeIs
  <2>13. z.const.kind = "int"
    BY <2>7, <2>12
  <2>14. c = IF x.ref.v # 0 THEN y.const ELSE z.const
    BY <1>2, <1>7, <2>9, <2>11, <2>13, EvalThreeIs
  <2>15. r.v = IF x.ref.v # 0 THEN y.ref.v ELSE z.ref.v
    BY <1>16, <2>1, <2>3
  <2>16. QED
    BY <2>10, <2>12, <2>14, <2>15
<1>20. FoldRight(n)
  BY <1>6, <1>14 DEF FoldRight
<1>21. QED
  BY <1>13, <1>17, <1>18, <1>19, <1>20 DEF NodeInv, n


\* What CodeGen makes of a binary expression has its type.
LEMMA GenBinaryTyped ==
  ASSUME NEW op \in BinaryOps, NEW l, NEW r, IrTyped(l), IrTyped(r)
  PROVE  IrTyped(GenBinary(op, l, r))
<1>1. CASE op \in ValueOps
  <2>1. PICK yes \in BOOLEAN : yes = TRUE
    OBVIOUS
  <2>2. IrTyped(GenArithmetic(op, l, r, yes))
    BY <1>1, ArithmeticIs
  <2>3. GenBinary(op, l, r) = GenArithmetic(op, l, r, TRUE)
    BY <1>1 DEF GenBinary, ValueOps, Arithmetic, Bitwise, Shifts, Comparisons, Logical
  <2>4. QED
    BY <2>1, <2>2, <2>3
<1>2. CASE op \in Comparisons
  <2>1. IrTyped(GenComparison(op, l, r))
    BY <1>2, ComparisonIs
  <2>2. GenBinary(op, l, r) = GenComparison(op, l, r)
    BY <1>2 DEF GenBinary, ValueOps, Arithmetic, Bitwise, Shifts, Comparisons, Logical
  <2>3. QED
    BY <2>1, <2>2
<1>3. CASE op \in Logical
  <2>1. IrTyped(GenLogical(op, l, r))
    BY <1>3, LogicalIs
  <2>2. GenBinary(op, l, r) = GenLogical(op, l, r)
    BY <1>3 DEF GenBinary, ValueOps, Arithmetic, Bitwise, Shifts, Comparisons, Logical
  <2>3. QED
    BY <2>1, <2>2
<1>4. CASE op = "comma"
  <2>1. GenBinary(op, l, r) \in {Broken, NoValue}
    BY <1>4 DEF GenBinary, ValueOps, Arithmetic, Bitwise, Shifts, Comparisons, Logical
  <2>2. QED
    BY <2>1, MadeTyped
<1>5. QED
  BY <1>1, <1>2, <1>3, <1>4 DEF BinaryOps

\* C's result of a binary operator is a number of its type, signed on signed operands.
LEMMA CBinaryTyped ==
  ASSUME NEW op \in BinaryOps, NEW x, NEW y, CTyped(x), CTyped(y)
  PROVE  LET r == CBinary(op, x, y)
         IN  /\ CTyped(r) /\ (r.defined => x.defined)
             /\ op \notin Logical /\ r.defined => y.defined
             /\ x.ty \in SignedTypes /\ y.ty \in SignedTypes => r.ty \in SignedTypes
<1> DEFINE r == CBinary(op, x, y)
<1>1. x.ty \in IntegerTypes /\ y.ty \in IntegerTypes /\ "Int" \in SignedTypes
  BY DEF CTyped, SignedTypes
<1>2. CASE op \in ValueOps
  <2>1. /\ CTyped(r) /\ (r.defined => x.defined /\ y.defined)
        /\ r.ty = IF op \in Shifts THEN CPromote(x.ty) ELSE CCommon(x.ty, y.ty)
    BY <1>2, CValueOpIs
  <2>2. x.ty \in SignedTypes /\ y.ty \in SignedTypes =>
          CPromote(x.ty) \in SignedTypes /\ CCommon(x.ty, y.ty) \in SignedTypes
    BY <1>1, PromoteIs, CommonIs
  <2> HIDE DEF r
  <2>3. QED
    BY <2>1, <2>2 DEF r
<1>3. CASE op \in Comparisons
  <2>1. CTyped(r) /\ r.ty = "Int" /\ (r.defined => x.defined /\ y.defined)
    BY <1>3, CComparisonIs
  <2> HIDE DEF r
  <2>2. QED
    BY <1>1, <2>1 DEF r
<1>4. CASE op \in Logical
  <2>1. CTyped(r) /\ r.ty = "Int" /\ (r.defined => x.defined)
    BY <1>4, CLogicalIs
  <2> HIDE DEF r
  <2>2. QED
    BY <1>1, <1>4, <2>1 DEF r
<1>5. CASE op = "comma"
  <2>1. CTyped(r) /\ r.ty = y.ty /\ (r.defined => x.defined /\ y.defined)
    BY <1>5, CCommaIs
  <2> HIDE DEF r
  <2>2. QED
    BY <2>1 DEF r
<1>6. QED
  BY <1>2, <1>3, <1>4, <1>5 DEF BinaryOps

\* The shapes of a binary expression.
LEMMA BinaryFree ==
  ASSUME NEW op \in BinaryOps, NEW l, NEW r, NodeInv(l), NodeInv(r)
  PROVE  LET S == l.shapes \cup r.shapes \cup BinaryShapes(op, l, r)
         IN  /\ S \cap {"unsigned", "sizeof"} = {} =>
                  /\ l.shapes \cap {"unsigned", "sizeof"} = {} /\ r.shapes \cap {"unsigned", "sizeof"} = {}
             /\ S \cap GenShapes = {} =>
                  /\ l.shapes \cap GenShapes = {} /\ r.shapes \cap GenShapes = {}
                  /\ op # "comma" /\ (op \in Logical \/ (~l.truth /\ ~r.truth))
                  /\ op \in ValueOps \cup Comparisons =>
                       Width(CPromote(l.ref.ty)) <= Width(CPromote(r.ref.ty))
                  /\ op \in Shifts => Width(CPromote(l.ref.ty)) = Width(CPromote(r.ref.ty))
             /\ S \cap EvalShapes = {} =>
                  /\ l.shapes \cap EvalShapes = {} /\ r.shapes \cap EvalShapes = {}
                  /\ op \in Logical => r.ref.defined
             /\ S \cap (GenShapes \cup EvalShapes \cup {"branch"}) = {} =>
                  /\ l.shapes \cap (GenShapes \cup EvalShapes \cup {"branch"}) = {}
                  /\ r.shapes \cap (GenShapes \cup EvalShapes \cup {"branch"}) = {}
                  /\ op \notin Logical
<1> DEFINE S == l.shapes \cup r.shapes \cup BinaryShapes(op, l, r)
<1>1. /\ l.truth \in BOOLEAN /\ r.truth \in BOOLEAN /\ r.ref.defined \in BOOLEAN
      /\ l.ref.ty \in IntegerTypes /\ r.ref.ty \in IntegerTypes
  BY DEF NodeInv, NodeTyped, CTyped
<1>2. PICK w \in Nat : w = Width(CPromote(l.ref.ty))
  BY <1>1, PromoteIs, WidthIs
<1>3. PICK u \in Nat : u = Width(CPromote(r.ref.ty))
  BY <1>1, PromoteIs, WidthIs
<1>4. PICK B : B = BinaryShapes(op, l, r)
  OBVIOUS
<1>5. /\ "truth" \notin B => op \in Logical \/ (~l.truth /\ ~r.truth)
      /\ "comma" \notin B => op # "comma"
      /\ "branch" \notin B => op \notin Logical
      /\ "wideLeft" \notin B /\ op \in ValueOps \cup Comparisons => ~(w > u)
      /\ "wideShift" \notin B /\ op \in Shifts => ~(w < u)
      /\ "unevaluated" \notin B /\ op \in Logical => r.ref.defined
  BY <1>1, <1>2, <1>3, <1>4 DEF BinaryShapes
<1>6. l.shapes \subseteq S /\ r.shapes \subseteq S /\ B \subseteq S
  BY <1>4
<1> HIDE DEF S
<1>7. op \in Shifts => op \in ValueOps \cup Comparisons
  BY DEF ValueOps
<1>8. S \cap {"unsigned", "sizeof"} = {} =>
        l.shapes \cap {"unsigned", "sizeof"} = {} /\ r.shapes \cap {"unsigned", "sizeof"} = {}
  BY <1>6
<1>9. ASSUME S \cap GenShapes = {}
      PROVE  /\ l.shapes \cap GenShapes = {} /\ r.shapes \cap GenShapes = {}
             /\ op # "comma" /\ (op \in Logical \/ (~l.truth /\ ~r.truth))
             /\ op \in ValueOps \cup Comparisons => w <= u
             /\ op \in Shifts => w = u
  <2>1. /\ "truth" \notin S /\ "comma" \notin S /\ "wideLeft" \notin S /\ "wideShift" \notin S
    BY <1>9, ShapesFree
  <2>2. /\ op # "comma" /\ (op \in Logical \/ (~l.truth /\ ~r.truth))
        /\ op \in ValueOps \cup Comparisons => ~(w > u)
        /\ op \in Shifts => ~(w < u)
    BY <1>5, <1>6, <2>1
  <2>3. l.shapes \cap GenShapes = {} /\ r.shapes \cap GenShapes = {}
    BY <1>6, <1>9
  <2>4. QED
    BY <1>7, <2>2, <2>3
<1>10. ASSUME S \cap EvalShapes = {}
       PROVE  /\ l.shapes \cap EvalShapes = {} /\ r.shapes \cap EvalShapes = {}
              /\ op \in Logical => r.ref.defined
  <2>1. "unevaluated" \notin S
    BY <1>10, ShapesFree
  <2>2. QED
    BY <1>5, <1>6, <1>10, <2>1
<1>11. ASSUME S \cap (GenShapes \cup EvalShapes \cup {"branch"}) = {}
       PROVE  /\ l.shapes \cap (GenShapes \cup EvalShapes \cup {"branch"}) = {}
              /\ r.shapes \cap (GenShapes \cup EvalShapes \cup {"branch"}) = {}
              /\ op \notin Logical
  <2>1. "branch" \notin S
    BY <1>11, ShapesFree
  <2>2. QED
    BY <1>5, <1>6, <1>11, <2>1
<1>12. QED
  BY <1>2, <1>3, <1>8, <1>9, <1>10, <1>11 DEF S

\* What CodeGen does with the operands of an arithmetic operator or a comparison.
LEMMA OperandsAre ==
  ASSUME NEW l, NEW r, NodeInv(l), NodeInv(r),
         l.shapes \cap GenShapes = {}, r.shapes \cap GenShapes = {}, ~l.truth, ~r.truth,
         Width(CPromote(l.ref.ty)) <= Width(CPromote(r.ref.ty))
  PROVE  /\ Usable(l.ir) /\ Usable(r.ir) /\ Promoted(l.ir.w) <= Promoted(r.ir.w)
         /\ l.ref.ty \in SignedTypes /\ r.ref.ty \in SignedTypes
         /\ Promoted(l.ir.w) = Width(CPromote(l.ref.ty)) /\ Promoted(r.ir.w) = Width(CPromote(r.ref.ty))
         /\ Width(CCommon(l.ref.ty, r.ref.ty)) = Promoted(r.ir.w)
         /\ l.ref.defined => l.ir.kind = "value" /\ l.ir.v = l.ref.v
         /\ r.ref.defined => r.ir.kind = "value" /\ r.ir.v = r.ref.v
<1>1. l.ref.ty \in IntegerTypes /\ r.ref.ty \in IntegerTypes
  BY DEF NodeInv, NodeTyped, CTyped
<1>2. l.ref.ty \in SignedTypes /\ r.ref.ty \in SignedTypes
  BY NodeSigned
<1>3. /\ Usable(l.ir) /\ l.ir.w = Width(l.ref.ty)
      /\ l.ref.defined => l.ir.kind = "value" /\ l.ir.v = l.ref.v
  BY DEF NodeInv, GenRight
<1>4. /\ Usable(r.ir) /\ r.ir.w = Width(r.ref.ty)
      /\ r.ref.defined => r.ir.kind = "value" /\ r.ir.v = r.ref.v
  BY DEF NodeInv, GenRight
<1>5. /\ Promoted(l.ir.w) = Width(CPromote(l.ref.ty))
      /\ Promoted(r.ir.w) = Width(CPromote(r.ref.ty))
  BY <1>1, <1>3, <1>4, PromoteIs DEF Promoted
<1>6. Width(CPromote(l.ref.ty)) \in Nat /\ Width(CPromote(r.ref.ty)) \in Nat
  BY <1>1, PromoteIs, WidthIs
<1>7. Width(CCommon(l.ref.ty, r.ref.ty)) = Width(CPromote(r.ref.ty))
  <2>1. Width(CCommon(l.ref.ty, r.ref.ty)) =
          Larger(Width(CPromote(l.ref.ty)), Width(CPromote(r.ref.ty)))
    BY <1>1, <1>2, CommonIs
  <2>2. QED
    BY <1>6, <2>1 DEF Larger
<1>8. QED
  BY <1>2, <1>3, <1>4, <1>5, <1>7

\* The value of a binary expression by CodeGen.
LEMMA BinaryGenRight ==
  ASSUME NEW op \in BinaryOps, NEW l, NEW r, NodeInv(l), NodeInv(r),
         BinaryExpr(op, l, r).shapes \cap GenShapes = {}
  PROVE  LET i == GenBinary(op, l.ir, r.ir)
             x == CBinary(op, l.ref, r.ref)
         IN  /\ Usable(i) /\ i.w = IF op \in Comparisons THEN 1 ELSE Width(x.ty)
             /\ x.defined => /\ i.kind = "value" /\ i.v = IF op \in Comparisons THEN -x.v ELSE x.v
                             /\ op \notin Logical => i.folded = (l.ir.folded /\ r.ir.folded)
<1>1. PICK S : S = l.shapes \cup r.shapes \cup BinaryShapes(op, l, r)
  OBVIOUS
<1>2. S \cap GenShapes = {}
  BY <1>1 DEF BinaryExpr
<1>3. /\ l.shapes \cap GenShapes = {} /\ r.shapes \cap GenShapes = {}
      /\ op # "comma" /\ (op \in Logical \/ (~l.truth /\ ~r.truth))
      /\ op \in ValueOps \cup Comparisons =>
           Width(CPromote(l.ref.ty)) <= Width(CPromote(r.ref.ty))
      /\ op \in Shifts => Width(CPromote(l.ref.ty)) = Width(CPromote(r.ref.ty))
  <2>1. /\ l.shapes \cap GenShapes = {} /\ r.shapes \cap GenShapes = {}
        /\ op # "comma" /\ (op \in Logical \/ (~l.truth /\ ~r.truth))
    BY <1>1, <1>2, BinaryFree
  <2>2. op \in ValueOps \cup Comparisons =>
          Width(CPromote(l.ref.ty)) <= Width(CPromote(r.ref.ty))
    BY <1>1, <1>2, BinaryFree
  <2>3. op \in Shifts => Width(CPromote(l.ref.ty)) = Width(CPromote(r.ref.ty))
    BY <1>1, <1>2, BinaryFree
  <2>4. QED
    BY <2>1, <2>2, <2>3
<1>4. CTyped(l.ref) /\ CTyped(r.ref) /\ IrTyped(l.ir) /\ IrTyped(r.ir)
  BY DEF NodeInv, NodeTyped
<1>5. PICK i : i = GenBinary(op, l.ir, r.ir)
  OBVIOUS
<1>6. PICK x : x = CBinary(op, l.ref, r.ref)
  OBVIOUS
<1>7. CASE op \in ValueOps
  <2>1. op \notin Logical /\ op \notin Comparisons /\ op # "comma"
    BY <1>7 DEF ValueOps, Arithmetic, Bitwise, Shifts, Comparisons, Logical
  <2>2. /\ Usable(l.ir) /\ Usable(r.ir) /\ Promoted(l.ir.w) <= Promoted(r.ir.w)
        /\ l.ref.ty \in SignedTypes /\ r.ref.ty \in SignedTypes
        /\ Promoted(l.ir.w) = Width(CPromote(l.ref.ty)) /\ Promoted(r.ir.w) = Width(CPromote(r.ref.ty))
        /\ Width(CCommon(l.ref.ty, r.ref.ty)) = Promoted(r.ir.w)
        /\ l.ref.defined => l.ir.kind = "value" /\ l.ir.v = l.ref.v
        /\ r.ref.defined => r.ir.kind = "value" /\ r.ir.v = r.ref.v
    BY <1>3, <1>7, <2>1, OperandsAre
  <2>3. /\ x.ty = IF op \in Shifts THEN CPromote(l.ref.ty) ELSE CCommon(l.ref.ty, r.ref.ty)
        /\ x.defined => l.ref.defined /\ r.ref.defined
        /\ x.defined => Exact(op, l.ref.v, r.ref.v, Width(x.ty)) /\ x.v = Apply(op, l.ref.v, r.ref.v)
    BY <1>4, <1>6, <1>7, <2>2, CValueOpIs
  <2>4. Width(x.ty) = Promoted(r.ir.w)
    BY <1>3, <2>2, <2>3
  <2>5. i = GenArithmetic(op, l.ir, r.ir, TRUE)
    BY <1>5, <1>7, <2>1 DEF GenBinary
  <2>6. PICK yes \in BOOLEAN : yes = TRUE
    OBVIOUS
  <2>7. LET g == GenArithmetic(op, l.ir, r.ir, yes)
        IN  /\ Usable(g) /\ g.w = Promoted(r.ir.w)
            /\ l.ir.kind = "value" /\ r.ir.kind = "value"
               /\ Exact(op, l.ir.v, r.ir.v, Promoted(r.ir.w)) =>
                 /\ g.kind = "value" /\ g.v = Apply(op, l.ir.v, r.ir.v)
                 /\ g.folded = (l.ir.folded /\ r.ir.folded)
    <3>1. LET g == GenArithmetic(op, l.ir, r.ir, yes)
          IN  /\ IrTyped(g)
              /\ Usable(l.ir) /\ Usable(r.ir) /\ Promoted(l.ir.w) <= Promoted(r.ir.w) =>
                   /\ Usable(g) /\ g.w = Promoted(r.ir.w)
                   /\ l.ir.kind = "value" /\ r.ir.kind = "value"
                      /\ Exact(op, l.ir.v, r.ir.v, Promoted(r.ir.w)) =>
                        /\ g.kind = "value" /\ g.v = Apply(op, l.ir.v, r.ir.v)
                        /\ g.folded = (l.ir.folded /\ r.ir.folded)
      BY <1>4, <1>7, ArithmeticIs
    <3>2. QED
      BY <2>2, <3>1
  <2>8. /\ Usable(i) /\ i.w = Promoted(r.ir.w)
        /\ l.ir.kind = "value" /\ r.ir.kind = "value"
           /\ Exact(op, l.ir.v, r.ir.v, Promoted(r.ir.w)) =>
             /\ i.kind = "value" /\ i.v = Apply(op, l.ir.v, r.ir.v)
             /\ i.folded = (l.ir.folded /\ r.ir.folded)
    BY <2>5, <2>6, <2>7
  <2>9. x.defined => i.kind = "value" /\ i.v = x.v /\ i.folded = (l.ir.folded /\ r.ir.folded)
    BY <2>2, <2>3, <2>4, <2>8
  <2>10. QED
    BY <1>5, <1>6, <2>1, <2>4, <2>8, <2>9
<1>8. CASE op \in Comparisons
  <2>1. op \notin Logical /\ op \notin ValueOps /\ op # "comma"
    BY <1>8 DEF ValueOps, Arithmetic, Bitwise, Shifts, Comparisons, Logical
  <2>2. /\ Usable(l.ir) /\ Usable(r.ir) /\ Promoted(l.ir.w) <= Promoted(r.ir.w)
        /\ l.ref.ty \in SignedTypes /\ r.ref.ty \in SignedTypes
        /\ l.ref.defined => l.ir.kind = "value" /\ l.ir.v = l.ref.v
        /\ r.ref.defined => r.ir.kind = "value" /\ r.ir.v = r.ref.v
    BY <1>3, <1>8, <2>1, OperandsAre
  <2>3. /\ x.defined => l.ref.defined /\ r.ref.defined
        /\ x.defined => x.v = Truth(Holds(op, l.ref.v, r.ref.v))
    BY <1>4, <1>6, <1>8, <2>2, CComparisonIs
  <2>4. i = GenComparison(op, l.ir, r.ir)
    BY <1>5, <1>8, <2>1 DEF GenBinary
  <2>5. /\ Usable(i) /\ i.w = 1
        /\ l.ir.kind = "value" /\ r.ir.kind = "value" =>
             /\ i.kind = "value" /\ i.v = -Truth(Holds(op, l.ir.v, r.ir.v))
             /\ i.folded = (l.ir.folded /\ r.ir.folded)
    BY <1>4, <1>8, <2>2, <2>4, ComparisonIs
  <2>6. x.defined => i.kind = "value" /\ i.v = -x.v /\ i.folded = (l.ir.folded /\ r.ir.folded)
    BY <2>2, <2>3, <2>5
  <2>7. QED
    BY <1>5, <1>6, <1>8, <2>5, <2>6
<1>9. CASE op \in Logical
  <2>1. op \notin Comparisons /\ op \notin ValueOps /\ op # "comma"
    BY <1>9 DEF ValueOps, Arithmetic, Bitwise, Shifts, Comparisons, Logical
  <2>2. Usable(l.ir) /\ (l.ref.defined => l.ir.kind = "value"
                           /\ l.ir.v = IF l.truth THEN -l.ref.v ELSE l.ref.v)
    BY <1>3 DEF NodeInv, GenRight
  <2>3. Usable(r.ir) /\ (r.ref.defined => r.ir.kind = "value"
                           /\ r.ir.v = IF r.truth THEN -r.ref.v ELSE r.ref.v)
    BY <1>3 DEF NodeInv, GenRight
  <2>4. /\ l.ref.v \in Int /\ r.ref.v \in Int
    BY <1>4 DEF CTyped
  <2>5. /\ l.ref.defined => (l.ir.v = 0 <=> l.ref.v = 0)
        /\ r.ref.defined => (r.ir.v = 0 <=> r.ref.v = 0)
    BY <2>2, <2>3, <2>4
  <2>6. PICK skips \in BOOLEAN : skips <=> (l.ref.v = 0) = (op = "logical_and")
    OBVIOUS
  <2>7. PICK m : m = Truth(op = "logical_or")
    OBVIOUS
  <2>8. PICK k : k = Truth(r.ref.v # 0)
    OBVIOUS
  <2>9. /\ x.ty = "Int" /\ (x.defined => l.ref.defined)
        /\ x.defined /\ skips => x.v = m
        /\ x.defined /\ ~skips => r.ref.defined /\ x.v = k
    BY <1>4, <1>6, <1>9, <2>6, <2>7, <2>8, CLogicalIs
  <2>10. i = GenLogical(op, l.ir, r.ir)
    BY <1>5, <1>9, <2>1 DEF GenBinary
  <2>11. PICK skipped \in BOOLEAN : skipped <=> (l.ir.v = 0) = (op = "logical_and")
    OBVIOUS
  <2>12. PICK j : j = Truth(r.ir.v # 0)
    OBVIOUS
  <2>13. /\ Usable(i) /\ i.w = IntWidth
         /\ l.ir.kind = "value" /\ skipped => i.kind = "value" /\ i.v = m
         /\ l.ir.kind = "value" /\ ~skipped /\ r.ir.kind = "value" => i.kind = "value" /\ i.v = j
    <3>1. LET g == GenLogical(op, l.ir, r.ir)
          IN  /\ Usable(g) /\ g.w = IntWidth
              /\ l.ir.kind = "value" /\ (l.ir.v = 0) = (op = "logical_and") =>
                   g.kind = "value" /\ g.v = Truth(op = "logical_or")
              /\ l.ir.kind = "value" /\ (l.ir.v = 0) # (op = "logical_and") /\ r.ir.kind = "value" =>
                   g.kind = "value" /\ g.v = Truth(r.ir.v # 0)
      BY <1>4, <1>9, <2>2, <2>3, LogicalIs
    <3>2. QED
      BY <2>7, <2>10, <2>11, <2>12, <3>1
  <2>14. l.ref.defined => (skips <=> skipped)
    BY <2>5, <2>6, <2>11
  <2>15. r.ref.defined => j = k
    <3>1. r.ref.defined => (r.ir.v # 0) = (r.ref.v # 0)
      BY <2>5
    <3>2. QED
      BY <2>8, <2>12, <3>1
  <2>16. x.defined => i.kind = "value" /\ i.v = x.v
    BY <2>2, <2>3, <2>9, <2>13, <2>14, <2>15
  <2>17. QED
    BY <1>5, <1>6, <1>9, <2>1, <2>9, <2>13, <2>16, WidthTable
<1>10. QED
  BY <1>3, <1>7, <1>8, <1>9 DEF BinaryOps

\* Its constant by EvalConstant.
LEMMA BinaryConstRight ==
  ASSUME NEW op \in BinaryOps, NEW l, NEW r, NodeInv(l), NodeInv(r),
         BinaryExpr(op, l, r).shapes \cap EvalShapes = {},
         CBinary(op, l.ref, r.ref).defined, EvalBinary(op, l.const, r.const).kind # "rejected"
  PROVE  /\ EvalBinary(op, l.const, r.const) = Constant(CBinary(op, l.ref, r.ref).v)
         /\ l.ref.defined /\ r.ref.defined
         /\ l.const.kind # "rejected" /\ r.const.kind # "rejected"
<1>1. PICK S : S = l.shapes \cup r.shapes \cup BinaryShapes(op, l, r)
  OBVIOUS
<1>2. S \cap EvalShapes = {}
  BY <1>1 DEF BinaryExpr
<1>3. /\ l.shapes \cap EvalShapes = {} /\ r.shapes \cap EvalShapes = {}
      /\ op \in Logical => r.ref.defined
  BY <1>1, <1>2, BinaryFree
<1>4. CTyped(l.ref) /\ CTyped(r.ref) /\ ConstTyped(l.const) /\ ConstTyped(r.const)
  BY DEF NodeInv, NodeTyped
<1>5. PICK c : c = EvalBinary(op, l.const, r.const)
  OBVIOUS
<1>6. PICK x : x = CBinary(op, l.ref, r.ref)
  OBVIOUS
<1>7. x.defined /\ c.kind # "rejected"
  BY <1>5, <1>6
<1>8. l.ref.ty \in SignedTypes /\ r.ref.ty \in SignedTypes
  BY <1>3, NodeSigned
<1>9. l.ref.defined /\ r.ref.defined
  BY <1>3, <1>4, <1>6, <1>7, CBinaryTyped
<1>10. l.const.kind # "rejected" => l.const = Constant(l.ref.v)
  BY <1>3, <1>9 DEF NodeInv, ConstRight
<1>11. r.const.kind # "rejected" => r.const = Constant(r.ref.v)
  BY <1>3, <1>9 DEF NodeInv, ConstRight
<1>12. \A v : Constant(v).kind = "int" /\ Constant(v).v = v
  BY DEF Constant
<1>13. l.const.kind # "rejected"
  BY <1>4, <1>5, <1>7, EvalBinaryIs
<1>14. l.const.kind = "int" /\ l.const.v = l.ref.v
  BY <1>10, <1>12, <1>13
<1>15. r.const.kind # "rejected"
  BY <1>4, <1>5, <1>7, <1>14, EvalBinaryIs
<1>16. r.const.kind = "int" /\ r.const.v = r.ref.v
  BY <1>11, <1>12, <1>15
<1>17. /\ op \in ValueOps /\ Exact(op, l.ref.v, r.ref.v, LongWidth) =>
            c = Constant(Apply(op, l.ref.v, r.ref.v))
       /\ op \in Comparisons => c = Constant(Truth(Holds(op, l.ref.v, r.ref.v)))
       /\ op = "logical_and" => c = Constant(Truth(l.ref.v # 0 /\ r.ref.v # 0))
       /\ op = "logical_or" => c = Constant(Truth(l.ref.v # 0 \/ r.ref.v # 0))
       /\ op = "comma" => c = r.const
  BY <1>4, <1>5, <1>14, <1>16, EvalBinaryIs
<1>18. c = Constant(x.v)
  <2>1. CASE op \in ValueOps
    <3>1. /\ CTyped(x) /\ x.v = Apply(op, l.ref.v, r.ref.v)
          /\ Exact(op, l.ref.v, r.ref.v, Width(x.ty))
          /\ x.ty = IF op \in Shifts THEN CPromote(l.ref.ty) ELSE CCommon(l.ref.ty, r.ref.ty)
      BY <1>4, <1>6, <1>7, <1>8, <2>1, CValueOpIs
    <3>2. /\ x.ty \in IntegerTypes
          /\ l.ref.v \in Int /\ r.ref.v \in Int /\ l.ref.ty \in IntegerTypes /\ Fits(l.ref.ty, l.ref.v)
      BY <1>4, <3>1 DEF CTyped
    <3>3. Width(x.ty) \in Widths /\ Width(x.ty) <= LongWidth /\ LongWidth \in Widths
      BY <3>2, WidthIs, WidthsAre
    <3>4. InWord(Width(x.ty), l.ref.v)
      <4>1. InWord(Width(CCommon(l.ref.ty, r.ref.ty)), l.ref.v)
        BY <1>8, <3>2, CommonKeeps
      <4>2. CPromote(l.ref.ty) \in SignedTypes /\ Fits(CPromote(l.ref.ty), l.ref.v)
        BY <1>8, <3>2, PromoteIs, PromoteFits
      <4>3. InWord(Width(CPromote(l.ref.ty)), l.ref.v)
        BY <3>2, <4>2, SignedFits
      <4>4. QED
        BY <3>1, <4>1, <4>3
    <3>5. Exact(op, l.ref.v, r.ref.v, LongWidth)
      BY <3>1, <3>2, <3>3, <3>4, ExactWider
    <3>6. QED
      BY <1>17, <2>1, <3>1, <3>5
  <2>2. CASE op \in Comparisons
    <3>1. x.v = Truth(Holds(op, l.ref.v, r.ref.v))
      BY <1>4, <1>6, <1>7, <1>8, <2>2, CComparisonIs
    <3>2. QED
      BY <1>17, <2>2, <3>1
  <2>3. CASE op \in Logical
    <3>1. op \in {"logical_and", "logical_or"}
      BY <2>3 DEF Logical
    <3>2. /\ (l.ref.v = 0) = (op = "logical_and") => x.v = Truth(op = "logical_or")
          /\ ~((l.ref.v = 0) = (op = "logical_and")) => x.v = Truth(r.ref.v # 0)
      BY <1>4, <1>6, <1>7, <2>3, CLogicalIs
    <3>3. op = "logical_and" => x.v = Truth(l.ref.v # 0 /\ r.ref.v # 0)
      BY <3>2 DEF Truth
    <3>4. op = "logical_or" => x.v = Truth(l.ref.v # 0 \/ r.ref.v # 0)
      BY <3>2 DEF Truth
    <3>5. QED
      BY <1>17, <3>1, <3>3, <3>4
  <2>4. CASE op = "comma"
    <3>1. x.v = r.ref.v
      BY <1>4, <1>6, <1>7, <2>4, CCommaIs
    <3>2. QED
      BY <1>11, <1>15, <1>17, <2>4, <3>1
  <2>5. QED
    BY <2>1, <2>2, <2>3, <2>4 DEF BinaryOps
<1>19. QED
  BY <1>5, <1>6, <1>9, <1>13, <1>15, <1>18

\* A binary expression.
LEMMA BinaryRight ==
  ASSUME NEW op \in BinaryOps, NEW l, NEW r, NodeInv(l), NodeInv(r)
  PROVE  NodeInv(BinaryExpr(op, l, r))
<1> DEFINE n == BinaryExpr(op, l, r)
<1>1. PICK S : S = l.shapes \cup r.shapes \cup BinaryShapes(op, l, r)
  OBVIOUS
<1>2. PICK c : c = EvalBinary(op, l.const, r.const)
  OBVIOUS
<1>3. PICK i : i = GenBinary(op, l.ir, r.ir)
  OBVIOUS
<1>4. PICK x : x = CBinary(op, l.ref, r.ref)
  OBVIOUS
<1>5. PICK t : t = l.ty
  OBVIOUS
<1>6. PICK b \in BOOLEAN : b <=> op \in Comparisons
  OBVIOUS
<1>7. /\ n.ty = t /\ n.truth = b /\ n.shapes = S /\ n.const = c /\ n.ir = i /\ n.ref = x
      /\ n = [ty |-> t, truth |-> b, shapes |-> S, const |-> c, ir |-> i, ref |-> x]
  BY <1>1, <1>2, <1>3, <1>4, <1>5, <1>6 DEF BinaryExpr
<1>8. /\ CTyped(l.ref) /\ IrTyped(l.ir) /\ ConstTyped(l.const)
      /\ CTyped(r.ref) /\ IrTyped(r.ir) /\ ConstTyped(r.const)
      /\ t \in IntegerTypes
  BY <1>5 DEF NodeInv, NodeTyped
<1>9. CTyped(x) /\ IrTyped(i) /\ ConstTyped(c)
  BY <1>2, <1>3, <1>4, <1>8, CBinaryTyped, GenBinaryTyped, EvalBinaryIs
<1>10. n \in [ty : IntegerTypes, truth : BOOLEAN, shapes : {S},
              const : [kind : {"int", "rejected", "undefined"}, v : Int],
              ir : [kind : Kinds, w : Nat, v : Int, folded : BOOLEAN],
              ref : [ty : IntegerTypes, defined : BOOLEAN, v : Int]]
  BY <1>7, <1>8, <1>9 DEF CTyped, IrTyped, ConstTyped
<1>11. n.shapes = BinaryExpr(op, l, r).shapes
  OBVIOUS
<1> HIDE DEF n
<1>12. NodeTyped(n)
  BY <1>7, <1>8, <1>9, <1>10 DEF NodeTyped, Node
<1>13. Signed(n)
  <2>1. SUFFICES ASSUME S \cap {"unsigned", "sizeof"} = {}
                 PROVE  t \in SignedTypes /\ x.ty \in SignedTypes
    BY <1>7 DEF Signed
  <2>2. l.shapes \cap {"unsigned", "sizeof"} = {} /\ r.shapes \cap {"unsigned", "sizeof"} = {}
    BY <1>1, <2>1, BinaryFree
  <2>3. t \in SignedTypes /\ l.ref.ty \in SignedTypes /\ r.ref.ty \in SignedTypes
    BY <1>5, <2>2 DEF NodeInv, Signed
  <2>4. QED
    BY <1>4, <1>8, <2>3, CBinaryTyped
<1>14. S \cap GenShapes = {} =>
         /\ Usable(i) /\ i.w = IF b THEN 1 ELSE Width(x.ty)
         /\ x.defined => /\ i.kind = "value" /\ i.v = IF b THEN -x.v ELSE x.v
                         /\ op \notin Logical => i.folded = (l.ir.folded /\ r.ir.folded)
  <2>1. S \cap GenShapes = {} =>
          LET g == GenBinary(op, l.ir, r.ir)
              y == CBinary(op, l.ref, r.ref)
          IN  /\ Usable(g) /\ g.w = IF op \in Comparisons THEN 1 ELSE Width(y.ty)
              /\ y.defined => /\ g.kind = "value" /\ g.v = IF op \in Comparisons THEN -y.v ELSE y.v
                              /\ op \notin Logical => g.folded = (l.ir.folded /\ r.ir.folded)
    BY <1>7, <1>11, BinaryGenRight
  <2>2. CASE b
    BY <1>3, <1>4, <1>6, <2>1, <2>2
  <2>3. CASE ~b
    BY <1>3, <1>4, <1>6, <2>1, <2>3
  <2>4. QED
    BY <2>2, <2>3
<1>15. GenRight(n)
  BY <1>7, <1>14 DEF GenRight
<1>16. S \cap EvalShapes = {} /\ x.defined /\ c.kind # "rejected" =>
         /\ c = Constant(x.v) /\ l.ref.defined /\ r.ref.defined
         /\ l.const.kind # "rejected" /\ r.const.kind # "rejected"
  BY <1>2, <1>4, <1>7, <1>11, BinaryConstRight
<1>17. ConstRight(n)
  BY <1>7, <1>16 DEF ConstRight
<1>18. FoldRight(n)
  <2>1. SUFFICES ASSUME S \cap (GenShapes \cup EvalShapes \cup {"branch"}) = {},
                        x.defined, c.kind # "rejected"
                 PROVE  i.folded
    BY <1>7 DEF FoldRight
  <2>2. S \cap GenShapes = {} /\ S \cap EvalShapes = {}
    BY <2>1, ShapesFree
  <2>3. /\ l.shapes \cap (GenShapes \cup EvalShapes \cup {"branch"}) = {}
        /\ r.shapes \cap (GenShapes \cup EvalShapes \cup {"branch"}) = {}
        /\ op \notin Logical
    BY <1>1, <2>1, BinaryFree
  <2>4. /\ l.ref.defined /\ r.ref.defined /\ l.const.kind # "rejected" /\ r.const.kind # "rejected"
    BY <1>16, <2>1, <2>2
  <2>5. l.ir.folded /\ r.ir.folded
    BY <2>3, <2>4 DEF NodeInv, FoldRight
  <2>6. i.folded = (l.ir.folded /\ r.ir.folded)
    BY <1>14, <2>1, <2>2, <2>3
  <2>7. QED
    BY <2>5, <2>6
<1>19. QED
  BY <1>12, <1>13, <1>15, <1>17, <1>18 DEF NodeInv, n


-----------------------------------------------------------------------------
(* Statements *)

\* A label becomes a constant of the switch's width, and the number of C.
LEMMA LabelRight ==
  ASSUME NEW n, NEW t \in IntegerTypes, NodeInv(n), LabelShapes(n, t) = {},
         n.ref.defined, n.const.kind = "int"
  PROVE  LET i == AssignCast(n.ir, Width(t))
         IN  /\ IsConstantInt(i) /\ Usable(i) /\ i.w = Width(t)
             /\ i.v = Convert(CPromote(t), n.ref.v)
<1>1. PICK S : S = n.shapes
  OBVIOUS
<1>2. /\ S \cap (GenShapes \cup EvalShapes \cup {"branch"}) = {} /\ ~n.truth
      /\ ~(Width(t) < IntWidth) /\ t \notin UnsignedTypes
  BY <1>1 DEF LabelShapes, TypeShapes
<1>3. S \cap GenShapes = {} /\ t \in SignedTypes
  BY <1>2, ShapesFree DEF IntegerTypes
<1>4. n.ir.kind = "value" /\ n.ir.v = n.ref.v /\ Usable(n.ir)
  BY <1>1, <1>2, <1>3 DEF NodeInv, GenRight
<1>5. n.ir.folded
  BY <1>1, <1>2 DEF NodeInv, FoldRight
<1>6. IrTyped(n.ir) /\ n.ref.v \in Int
  BY DEF NodeInv, NodeTyped, CTyped
<1>7. CPromote(t) = t
  BY <1>2, WidthIs, WidthsAre, PromoteIs
<1>8. PICK w \in ValueWidths : w = Width(t)
  BY WidthIs DEF ValueWidths
<1>9. PICK i : i = AssignCast(n.ir, w)
  OBVIOUS
<1>10. i.kind = "value" /\ i.w = w /\ i.v = SignedOf(w, n.ir.v) /\ i.folded = n.ir.folded /\ Usable(i)
  BY <1>4, <1>6, <1>9, AssignCastIs
<1>11. Convert(t, n.ref.v) = SignedOf(w, n.ref.v)
  BY <1>3, <1>6, <1>8, SignedFits
<1>12. QED
  BY <1>4, <1>5, <1>7, <1>8, <1>9, <1>10, <1>11 DEF IsConstantInt

\* A record of values is told by its fields.
LEMMA SameValue ==
  ASSUME NEW x \in [kind : Kinds, w : Nat, v : Int, folded : BOOLEAN],
         NEW y \in [kind : Kinds, w : Nat, v : Int, folded : BOOLEAN],
         x.kind = y.kind, x.w = y.w, x.v = y.v, x.folded = y.folded
  PROVE  x = y
OBVIOUS

\* A condition becomes an i1 that is the truth of C's value.
LEMMA ConditionRight ==
  ASSUME NEW n, NodeInv(n), n.shapes \cap GenShapes = {}
  PROVE  /\ Usable(BoolCast(n.ir))
         /\ n.ref.defined =>
              BoolCast(n.ir) =
                [Value(1, Truth(n.ref.v # 0), FALSE) EXCEPT !.folded = BoolCast(n.ir).folded]
<1>1. Usable(n.ir) /\ (n.ref.defined => n.ir.kind = "value"
                         /\ n.ir.v = IF n.truth THEN -n.ref.v ELSE n.ref.v)
  BY DEF NodeInv, GenRight
<1>2. IrTyped(n.ir) /\ n.ref.v \in Int
  BY DEF NodeInv, NodeTyped, CTyped
<1>3. PICK i : i = BoolCast(n.ir)
  OBVIOUS
<1>4. /\ IrTyped(i) /\ Usable(i) /\ i.w = 1
      /\ n.ir.kind = "value" => i.kind = "value" /\ i.v = -Truth(n.ir.v # 0)
  BY <1>1, <1>2, <1>3, BoolCastIs
<1>5. ASSUME n.ref.defined
      PROVE  i = [Value(1, Truth(n.ref.v # 0), FALSE) EXCEPT !.folded = i.folded]
  <2>1. (n.ir.v # 0) = (n.ref.v # 0)
    BY <1>1, <1>2, <1>5
  <2>2. PICK k \in {0, 1} : k = Truth(n.ref.v # 0)
    BY DEF Truth
  <2>3. i.kind = "value" /\ i.v = -k
    BY <1>1, <1>4, <1>5, <2>1, <2>2
  <2>4. PICK no \in BOOLEAN : no = FALSE
    OBVIOUS
  <2>5. 1 \in ValueWidths /\ 1 \in Widths /\ k \in Int
    BY <2>2, WidthsAre DEF ValueWidths
  <2>6. PICK y : y = Value(1, k, no)
    OBVIOUS
  <2>7. IrTyped(y) /\ y.kind = "value" /\ y.w = 1 /\ y.v = SignedOf(1, k)
    BY <2>5, <2>6, MadeTyped
  <2>8. SignedOf(1, k) = -k
    BY <2>2, <2>5, SmallInWord
  <2>9. PICK f \in BOOLEAN : f = i.folded
    BY <1>4 DEF IrTyped
  <2>10. PICK z : z = [y EXCEPT !.folded = f]
    OBVIOUS
  <2>11. z \in [kind : Kinds, w : Nat, v : Int, folded : BOOLEAN]
         /\ z.kind = y.kind /\ z.w = y.w /\ z.v = y.v /\ z.folded = f
    BY <2>7, <2>10 DEF IrTyped
  <2>12. i \in [kind : Kinds, w : Nat, v : Int, folded : BOOLEAN]
    BY <1>4 DEF IrTyped
  <2>13. i = z
    BY <1>4, <2>3, <2>7, <2>8, <2>9, <2>11, <2>12, SameValue
  <2>14. QED
    BY <2>2, <2>4, <2>6, <2>9, <2>10, <2>13
<1>6. QED
  BY <1>3, <1>4, <1>5

\* An assignment stores C's value at the width of the variable.
LEMMA AssignRight ==
  ASSUME NEW n, NEW x \in Variables, NodeInv(n), StoreShapes(n, x, "assign") = {}
  PROVE  LET i == GenAssign(GenVariableAccess(x.ty, x.v), n.ir)
             s == CCast(x.ty, n.ref)
         IN  Usable(i) /\ i.w = Width(x.ty) /\ (s.defined => i.kind = "value" /\ i.v = s.v)
<1>1. PICK t \in IntegerTypes : t = x.ty
  BY VariablesAssumption
<1>2. PICK v \in Int : v = x.v
  BY VariablesAssumption
<1>3. n.shapes \cap GenShapes = {} /\ ~n.truth /\ t \in SignedTypes
  BY <1>1 DEF StoreShapes, TypeShapes, IntegerTypes
<1>4. /\ Usable(n.ir)
      /\ n.ref.defined => n.ir.kind = "value" /\ n.ir.v = n.ref.v
  BY <1>3 DEF NodeInv, GenRight
<1>5. IrTyped(n.ir) /\ CTyped(n.ref) /\ n.ref.v \in Int
  BY DEF NodeInv, NodeTyped, CTyped
<1>6. PICK w \in ValueWidths : w = Width(t)
  BY WidthIs DEF ValueWidths
<1>7. GenVariableAccess(t, v).w = w
  BY <1>6, AccessIs
<1>8. PICK i : i = AssignCast(n.ir, w)
  OBVIOUS
<1>9. GenAssign(GenVariableAccess(x.ty, x.v), n.ir) = i
  BY <1>1, <1>2, <1>4, <1>7, <1>8 DEF GenAssign
<1>10. Usable(i) /\ i.w = w /\ (n.ir.kind = "value" => i.kind = "value" /\ i.v = SignedOf(w, n.ir.v))
  BY <1>4, <1>5, <1>8, AssignCastIs
<1>11. PICK s : s = CCast(t, n.ref)
  OBVIOUS
<1>12. s.defined => n.ref.defined /\ s.v = Convert(t, n.ref.v)
  BY <1>5, <1>11, CCastIs
<1>13. Convert(t, n.ref.v) = SignedOf(w, n.ref.v)
  BY <1>3, <1>5, <1>6, SignedFits
<1>14. s.defined => i.kind = "value" /\ i.v = s.v
  BY <1>4, <1>10, <1>12, <1>13
<1>15. QED
  BY <1>1, <1>6, <1>9, <1>10, <1>11, <1>14

\* So does a compound assignment.
LEMMA OpAssignRight ==
  ASSUME NEW n, NEW x \in Variables, NEW op \in ValueOps, NodeInv(n), StoreShapes(n, x, op) = {}
  PROVE  LET i == GenOpAssign(op, GenVariableAccess(x.ty, x.v), n.ir)
             s == CCast(x.ty, CBinary(op, CValue(x.ty, x.v), n.ref))
         IN  Usable(i) /\ i.w = Width(x.ty) /\ (s.defined => i.kind = "value" /\ i.v = s.v)
<1>1. PICK t \in IntegerTypes : t = x.ty
  BY VariablesAssumption
<1>2. PICK v \in Int : v = x.v
  BY VariablesAssumption
<1>3. Fits(t, v)
  BY <1>1, <1>2, VariablesAssumption
<1>4. op # "assign"
  BY DEF ValueOps, Arithmetic, Bitwise, Shifts
<1>5. IrTyped(n.ir) /\ CTyped(n.ref) /\ n.ref.v \in Int /\ n.ref.ty \in IntegerTypes
  BY DEF NodeInv, NodeTyped, CTyped
<1>6. PICK left \in Nat : left = Width(CPromote(t))
  BY PromoteIs, WidthIs
<1>7. PICK right \in Nat : right = Width(CPromote(n.ref.ty))
  BY <1>5, PromoteIs, WidthIs
<1>8. /\ n.shapes \cap GenShapes = {} /\ ~n.truth /\ t \notin UnsignedTypes
      /\ ~(Width(t) < IntWidth) /\ ~(left > right) /\ ~(left < right)
  BY <1>1, <1>4, <1>6, <1>7 DEF StoreShapes, TypeShapes
<1>9. t \in SignedTypes /\ n.ref.ty \in SignedTypes /\ left = right
  BY <1>8, NodeSigned DEF IntegerTypes
<1>10. CPromote(t) = t /\ Width(t) = left /\ Width(t) \in Widths /\ Width(t) \in ValueWidths
  BY <1>6, <1>8, WidthIs, WidthsAre, PromoteIs DEF ValueWidths
<1>11. PICK y : y = GenVariableAccess(t, v)
  OBVIOUS
<1>12. IrTyped(y) /\ Usable(y) /\ y.kind = "value" /\ y.w = Width(t) /\ y.v = v
  BY <1>3, <1>9, <1>11, AccessIs, SignedFits
<1>13. /\ Usable(n.ir) /\ n.ir.w = Width(n.ref.ty)
       /\ n.ref.defined => n.ir.kind = "value" /\ n.ir.v = n.ref.v
  BY <1>8 DEF NodeInv, GenRight
<1>14. Promoted(y.w) = left /\ Promoted(n.ir.w) = left
  BY ZenonT(60), <1>5, <1>6, <1>7, <1>9, <1>12, <1>13, PromoteIs DEF Promoted
<1>15. PICK z : z = CValue(t, v)
  OBVIOUS
<1>16. CTyped(z) /\ z.ty = t /\ z.v = v
  BY <1>3, <1>15, CMadeTyped
<1>17. PICK r : r = CBinary(op, z, n.ref)
  OBVIOUS
<1>18. /\ CTyped(r) /\ r.ty = IF op \in Shifts THEN CPromote(t) ELSE CCommon(t, n.ref.ty)
       /\ r.defined => n.ref.defined
       /\ r.defined => Exact(op, v, n.ref.v, Width(r.ty)) /\ r.v = Apply(op, v, n.ref.v)
  BY <1>5, <1>9, <1>16, <1>17, CValueOpIs
<1>19. Width(r.ty) = left
  <2>1. Width(CCommon(t, n.ref.ty)) = Larger(left, right)
    BY <1>5, <1>6, <1>7, <1>9, CommonIs
  <2>2. Larger(left, right) = left
    BY <1>9 DEF Larger
  <2>3. QED
    BY <1>6, <1>18, <2>1, <2>2
<1>20. PICK i : i = GenOpAssign(op, y, n.ir)
  OBVIOUS
<1>21. /\ Usable(i) /\ i.w = left
       /\ n.ir.kind = "value" /\ Exact(op, y.v, n.ir.v, left) =>
            i.kind = "value" /\ i.v = Apply(op, y.v, n.ir.v)
  <2>1. i = GenArithmetic(op, y, n.ir, FALSE)
    BY <1>13, <1>20 DEF GenOpAssign
  <2>2. PICK no \in BOOLEAN : no = FALSE
    OBVIOUS
  <2>3. Promoted(y.w) <= Promoted(n.ir.w)
    BY <1>14
  <2>4. LET g == GenArithmetic(op, y, n.ir, no)
        IN  /\ Usable(g) /\ g.w = Promoted(n.ir.w)
            /\ y.kind = "value" /\ n.ir.kind = "value" /\ Exact(op, y.v, n.ir.v, Promoted(n.ir.w)) =>
                 g.kind = "value" /\ g.v = Apply(op, y.v, n.ir.v)
    BY <1>5, <1>12, <1>13, <2>3, ArithmeticIs
  <2>5. QED
    BY <1>12, <1>14, <2>1, <2>2, <2>4
<1>22. PICK s : s = CCast(t, r)
  OBVIOUS
<1>23. s.defined => r.defined /\ s.v = Convert(t, r.v)
  BY <1>18, <1>22, CCastIs
<1>24. r.defined => i.kind = "value" /\ i.v = r.v /\ InWord(Width(t), r.v)
  BY <1>10, <1>12, <1>13, <1>18, <1>19, <1>21 DEF Exact
<1>25. r.v \in Int
  BY <1>18 DEF CTyped
<1>26. s.defined => i.kind = "value" /\ i.v = s.v
  BY <1>9, <1>23, <1>24, <1>25, SignedFits
<1>27. QED
  BY <1>1, <1>2, <1>10, <1>11, <1>15, <1>17, <1>20, <1>21, <1>22, <1>26

\* ++ and -- store C's value in an int.
LEMMA IncrementRight ==
  ASSUME NEW x \in Variables, NEW delta \in {-1, 1}, IncrementShapes(x) = {}
  PROVE  LET i == GenIncrement(GenVariableAccess(x.ty, x.v), delta)
             s == CCast(x.ty, CBinary("add", CValue(x.ty, x.v), CValue("Int", delta)))
         IN  Usable(i) /\ i.w = Width(x.ty) /\ (s.defined => i.kind = "value" /\ i.v = s.v)
<1>1. PICK t \in IntegerTypes : t = x.ty
  BY VariablesAssumption
<1>2. PICK v \in Int : v = x.v
  BY VariablesAssumption
<1>3. Fits(t, v)
  BY <1>1, <1>2, VariablesAssumption
<1>4. t \in SignedTypes /\ Width(t) = IntWidth
  BY <1>1 DEF IncrementShapes, TypeShapes, IntegerTypes
<1>5. /\ "Int" \in SignedTypes /\ "Int" \in IntegerTypes /\ delta \in Int
      /\ "add" \in ValueOps /\ "add" \notin Shifts
  BY DEF SignedTypes, IntegerTypes, ValueOps, Arithmetic, Shifts
<1>6. PICK y : y = GenVariableAccess(t, v)
  OBVIOUS
<1>7. IrTyped(y) /\ Usable(y) /\ y.kind = "value" /\ y.w = IntWidth /\ y.v = v
  BY <1>3, <1>4, <1>6, AccessIs, SignedFits
<1>8. PICK i : i = GenIncrement(y, delta)
  OBVIOUS
<1>9. Usable(i) /\ i.w = IntWidth /\ i.kind = "value" /\ (InWord(IntWidth, v + delta) => i.v = v + delta)
  BY <1>5, <1>7, <1>8, IncrementIs
<1>10. PICK z : z = CValue(t, v)
  OBVIOUS
<1>11. CTyped(z) /\ z.ty = t /\ z.v = v
  BY <1>3, <1>10, CMadeTyped
<1>12. PICK d : d = CValue("Int", delta)
  OBVIOUS
<1>13. CTyped(d) /\ d.ty = "Int" /\ d.v = delta
  <2>1. InWord(IntWidth, delta)
    BY SmallInWord, WidthsAre
  <2>2. Fits("Int", delta)
    BY <1>5, <2>1, SignedFits, WidthTable
  <2>3. QED
    BY <1>5, <1>12, <2>2, CMadeTyped
<1>14. PICK r : r = CBinary("add", z, d)
  OBVIOUS
<1>15. /\ CTyped(r) /\ r.ty = CCommon(t, "Int")
       /\ r.defined => Exact("add", v, delta, Width(r.ty)) /\ r.v = Apply("add", v, delta)
  BY <1>4, <1>5, <1>11, <1>13, <1>14, CValueOpIs
<1>16. Width(r.ty) = IntWidth
  <2>1. Width(CPromote(t)) = IntWidth /\ Width(CPromote("Int")) = IntWidth
    BY <1>4, <1>5, PromoteIs, WidthTable, WidthsAre DEF Larger
  <2>2. QED
    BY <1>4, <1>5, <1>15, <2>1, CommonIs DEF Larger
<1>17. Apply("add", v, delta) = v + delta
  BY DEF Apply
<1>18. PICK s : s = CCast(t, r)
  OBVIOUS
<1>19. s.defined => r.defined /\ s.v = Convert(t, r.v)
  BY <1>15, <1>18, CCastIs
<1>20. r.v \in Int
  BY <1>15 DEF CTyped
<1>21. r.defined => r.v = v + delta /\ InWord(IntWidth, r.v)
  BY <1>15, <1>16, <1>17 DEF Exact
<1>22. s.defined => s.v = v + delta /\ InWord(IntWidth, v + delta)
  BY <1>4, <1>19, <1>20, <1>21, SignedFits
<1>23. QED
  BY <1>1, <1>2, <1>4, <1>6, <1>8, <1>9, <1>10, <1>12, <1>14, <1>18, <1>22


-----------------------------------------------------------------------------
(* The invariant *)

\* What the parser leaves to CodeGen.
PendingSites ==
    {[kind |-> "condition", ir |-> NoValue]}
    \cup [kind : {"store"}, x : Targets, op : AssignOps, ir : {NoValue}]
    \cup [kind : {"increment"}, x : Targets, delta : {-1, 1}, ir : {NoValue}]
    \cup [kind : {"label"}, ty : {x.ty : x \in Targets}, ir : {NoValue}]

\* The nodes are right, and the statement that waits for CodeGen has the node it needs.
Parsed ==
    /\ operands \in Seq(Node)
    /\ \A k \in 1 .. Len(operands) : NodeInv(operands[k])
    /\ nodes \in 0 .. MaxNodes
    /\ phase \in {"parsing", "generating", "accepted", "rejected", "crashed"}
    /\ site.kind \in {"none", "bound", "label", "condition", "store", "increment"}
    /\ phase = "parsing" => site = NoSite
    /\ phase = "generating" =>
         /\ site \in PendingSites
         /\ site.kind # "increment" => Len(operands) = 1
         /\ site.kind = "label" => Last(1).const.kind = "int"

\* The outcome is right.
OutcomeRight == BoundsAreRight /\ LabelsMatch /\ StatementsAreRight /\ NeverCrashes

\* The inductive invariant: the nodes on the stack are right, and so is what came of them.
ExprInv == Parsed /\ OutcomeRight

\* The nodes on the stack are right.
LEMMA LastRight ==
  ASSUME ExprInv, NEW k \in 1 .. Len(operands)
  PROVE  NodeInv(Last(k))
<1>1. Len(operands) \in Nat
  BY DEF ExprInv, Parsed
<1>2. Len(operands) - k + 1 \in 1 .. Len(operands)
  BY <1>1
<1>3. QED
  BY <1>2 DEF ExprInv, Parsed, Last

\* A right node can be put on the stack.
LEMMA ReduceRight ==
  ASSUME ExprInv, NEW k \in Nat, NEW node, NodeInv(node), Reduce(k, node)
  PROVE  ExprInv'
<1>1. phase = "parsing" /\ phase' = phase /\ site' = site /\ site = NoSite
  BY DEF ExprInv, Parsed, Reduce, Room
<1>2. node \in Node
  BY DEF Reduce, NodeInv, NodeTyped
<1>3. PICK m \in 0 .. Len(operands) : m = Len(operands) - k
  BY SMTT(60) DEF ExprInv, Parsed, Reduce, Room
<1>4. operands \in Seq(Node) /\ Len(operands) \in Nat
  BY DEF ExprInv, Parsed
<1>5. PICK low : low = SubSeq(operands, 1, m)
  OBVIOUS
<1>6. low \in Seq(Node) /\ Len(low) = m /\ \A j \in 1 .. m : low[j] = operands[j]
  BY <1>3, <1>4, <1>5
<1>7. operands' = Append(low, node)
  BY <1>3, <1>5 DEF Reduce
<1>8. operands' \in Seq(Node) /\ Len(operands') = m + 1
  <2>1. Append(low, node) \in Seq(Node) /\ Len(Append(low, node)) = Len(low) + 1
    BY <1>2, <1>6
  <2>2. QED
    BY <1>6, <1>7, <2>1
<1>9. ASSUME NEW j \in 1 .. Len(operands') PROVE NodeInv(operands'[j])
  <2>1. CASE j = m + 1
    <3>1. operands'[j] = node
      <4>1. Append(low, node)[Len(low) + 1] = node
        BY <1>2, <1>6
      <4>2. QED
        BY <1>6, <1>7, <2>1, <4>1
    <3>2. QED
      BY <3>1
  <2>2. CASE j # m + 1
    <3>1. j \in 1 .. m /\ j \in 1 .. Len(operands)
      BY <1>3, <1>4, <1>8, <2>2
    <3>2. operands'[j] = operands[j]
      BY <1>3, <1>6, <1>7, <3>1
    <3>3. NodeInv(operands[j])
      BY <3>1 DEF ExprInv, Parsed
    <3>4. QED
      BY <3>2, <3>3
  <2>3. QED
    BY <2>1, <2>2
<1>10. nodes' \in 0 .. MaxNodes
  <2>1. nodes \in Nat /\ nodes' = nodes + 1 /\ nodes + 1 + (m + 1) \div 2 <= MaxNodes
    BY <1>3 DEF ExprInv, Parsed, Reduce, Room
  <2>2. (m + 1) \div 2 \in Nat
    BY <1>3
  <2>3. QED
    BY <2>1, <2>2, BoundAssumption
<1>11. Parsed'
  BY <1>1, <1>8, <1>9, <1>10 DEF Parsed, NoSite
<1>12. OutcomeRight'
  BY <1>1 DEF OutcomeRight, BoundsAreRight, LabelsMatch, StatementsAreRight, NeverCrashes, Decided
<1>13. QED
  BY <1>11, <1>12 DEF ExprInv

\* The parser may end the program.
LEMMA RejectRight ==
  ASSUME ExprInv, phase = "parsing", Reject
  PROVE  ExprInv'
<1>1. phase' = "rejected" /\ operands' = operands /\ nodes' = nodes /\ site' = site /\ site = NoSite
  BY DEF Reject, ExprInv, Parsed
<1>2. Parsed'
  BY <1>1 DEF ExprInv, Parsed, NoSite
<1>3. OutcomeRight'
  BY <1>1 DEF NoSite, OutcomeRight, BoundsAreRight, LabelsMatch, StatementsAreRight, NeverCrashes
<1>4. QED
  BY <1>2, <1>3 DEF ExprInv


\* The node of a statement is the only one.
LEMMA WholeIs ==
  ASSUME ExprInv, Whole, operands' = operands, nodes' = nodes
  PROVE  /\ NodeInv(Last(1)) /\ Last(1)' = Last(1) /\ Len(operands) = 1
         /\ operands' \in Seq(Node) /\ nodes' \in 0 .. MaxNodes
         /\ \A k \in 1 .. Len(operands') : NodeInv(operands'[k])
<1>1. Len(operands) = 1
  BY DEF Whole
<1>2. NodeInv(Last(1))
  BY <1>1, LastRight
<1>3. Last(1)' = Last(1)
  BY DEF Last
<1>4. QED
  BY <1>1, <1>2, <1>3 DEF ExprInv, Parsed

\* The bound of an array.
LEMMA BoundStep ==
  ASSUME ExprInv, DirectDeclaratorArraySuffix
  PROVE  ExprInv'
<1>1. PICK n : n = Last(1)
  OBVIOUS
<1>2. /\ NodeInv(n) /\ Last(1)' = n
      /\ operands' \in Seq(Node) /\ nodes' \in 0 .. MaxNodes
      /\ \A k \in 1 .. Len(operands') : NodeInv(operands'[k])
  BY <1>1, WholeIs DEF DirectDeclaratorArraySuffix
<1>3. PICK count : count = SignedOf(IntWidth, n.const.v)
  OBVIOUS
<1>4. /\ phase' = IF n.const.kind = "undefined" THEN "crashed"
                  ELSE IF n.const.kind = "rejected" \/ BadBound(count) THEN "rejected"
                  ELSE "accepted"
      /\ site' = [kind |-> "bound", count |-> count]
  BY <1>1, <1>3 DEF DirectDeclaratorArraySuffix
<1>5. site'.kind = "bound" /\ site'.count = count
  BY <1>4
<1>6. phase' \in {"accepted", "rejected", "crashed"}
  BY <1>4
<1>7. Parsed'
  BY <1>2, <1>5, <1>6 DEF Parsed
<1>8. n.const.v \in Int /\ n.ref.v \in Int
  BY <1>2 DEF NodeInv, NodeTyped, CTyped, ConstTyped
<1>9. \A v : Constant(v).kind = "int" /\ Constant(v).v = v
  BY DEF Constant
<1>10. BoundsAreRight'
  <2>1. SUFFICES ASSUME n.shapes \cap EvalShapes = {}, n.ref.defined, n.const.kind # "rejected",
                        Fits("Int", n.ref.v)
                 PROVE  /\ phase' = IF n.ref.v > 0 THEN "accepted" ELSE "rejected"
                        /\ phase' = "accepted" => site'.count = n.ref.v
    BY <1>2 DEF BoundsAreRight
  <2>2. n.const = Constant(n.ref.v)
    BY <1>2, <2>1 DEF NodeInv, ConstRight
  <2>3. n.const.kind = "int" /\ n.const.v = n.ref.v
    BY <1>9, <2>2
  <2>4. count = n.ref.v
    <3>1. InWord(IntWidth, n.ref.v)
      BY <1>8, <2>1, SignedFits, WidthTable DEF SignedTypes
    <3>2. QED
      BY <1>3, <1>8, <2>3, <3>1, SignedIs, WidthsAre
  <2>5. phase' = IF BadBound(count) THEN "rejected" ELSE "accepted"
    BY <1>4, <2>3
  <2>6. QED
    BY <1>5, <1>8, <2>4, <2>5 DEF BadBound
<1>11. LabelsMatch' /\ StatementsAreRight'
  BY <1>5 DEF LabelsMatch, StatementsAreRight
<1>12. NeverCrashes'
  <2>1. phase' = "crashed" => n.shapes \cap EvalShapes # {} \/ ~n.ref.defined
    <3>1. SUFFICES ASSUME phase' = "crashed", n.shapes \cap EvalShapes = {}, n.ref.defined PROVE FALSE
      OBVIOUS
    <3>2. n.const.kind = "undefined"
      BY <1>4, <3>1
    <3>3. n.const = Constant(n.ref.v)
      BY <1>2, <3>1, <3>2 DEF NodeInv, ConstRight
    <3>4. QED
      BY <1>9, <3>2, <3>3
  <2>2. QED
    BY <1>2, <1>5, <2>1 DEF NeverCrashes
<1>13. QED
  BY <1>7, <1>10, <1>11, <1>12 DEF ExprInv, OutcomeRight

\* The label of a switch.
LEMMA CaseStep ==
  ASSUME ExprInv, ParseCaseStmt
  PROVE  ExprInv'
<1>1. PICK n : n = Last(1)
  OBVIOUS
<1>2. /\ NodeInv(n) /\ Last(1)' = n /\ Len(operands) = 1
      /\ operands' \in Seq(Node) /\ nodes' \in 0 .. MaxNodes
      /\ \A k \in 1 .. Len(operands') : NodeInv(operands'[k])
  BY <1>1, WholeIs DEF ParseCaseStmt
<1>3. PICK x \in Targets : site' = [kind |-> "label", ty |-> x.ty, ir |-> NoValue]
  BY DEF ParseCaseStmt
<1>4. phase' = CASE n.const.kind = "undefined" -> "crashed"
                 [] n.const.kind = "rejected"  -> "rejected"
                 [] OTHER -> "generating"
  BY <1>1 DEF ParseCaseStmt
<1>5. n.const.kind \in {"int", "rejected", "undefined"}
  BY <1>2 DEF NodeInv, NodeTyped, ConstTyped
<1>6. /\ n.const.kind = "undefined" => phase' = "crashed"
      /\ n.const.kind = "rejected" => phase' = "rejected"
      /\ n.const.kind = "int" => phase' = "generating"
  BY <1>4, <1>5
<1>7. site'.kind = "label"
  BY <1>3
<1>8. site' \in PendingSites
  BY <1>3 DEF PendingSites
<1>9. Len(operands') = 1
  BY <1>2 DEF ParseCaseStmt
<1>10. Parsed'
  BY <1>2, <1>5, <1>6, <1>7, <1>8, <1>9 DEF Parsed
<1>11. n.shapes \cap EvalShapes = {} /\ n.ref.defined /\ n.const.kind # "rejected" => n.const.kind = "int"
  BY <1>2 DEF NodeInv, ConstRight, Constant
<1>12. \A t : LabelShapes(n, t) = {} => n.shapes \cap EvalShapes = {}
  BY DEF LabelShapes
<1>13. LabelsMatch'
  BY <1>2, <1>6, <1>7, <1>11, <1>12 DEF LabelsMatch, Decided
<1>14. BoundsAreRight' /\ StatementsAreRight'
  BY <1>7 DEF BoundsAreRight, StatementsAreRight
<1>15. NeverCrashes'
  <2>1. phase' = "crashed" => LabelShapes(n, site'.ty) # {} \/ ~n.ref.defined
    BY <1>5, <1>6, <1>11, <1>12
  <2>2. QED
    BY <1>2, <1>7, <2>1 DEF NeverCrashes
<1>16. QED
  BY <1>10, <1>13, <1>14, <1>15 DEF ExprInv, OutcomeRight

\* A statement that waits for CodeGen.
LEMMA StatementStep ==
  ASSUME ExprInv, ParseStatement \/ ParseIncrement
  PROVE  ExprInv'
<1>1. /\ phase' = "generating" /\ operands' = operands /\ nodes' = nodes
      /\ site' \in PendingSites /\ site'.kind \in {"condition", "store", "increment"}
      /\ site'.kind # "increment" => Len(operands) = 1
  <2>1. CASE ParseStatement
    <3>1. /\ phase' = "generating" /\ operands' = operands /\ nodes' = nodes /\ Len(operands) = 1
          /\ site' \in {[kind |-> "condition", ir |-> NoValue]}
                       \cup [kind : {"store"}, x : Targets, op : AssignOps, ir : {NoValue}]
      BY <2>1 DEF ParseStatement, Whole
    <3>2. QED
      BY <3>1 DEF PendingSites
  <2>2. CASE ParseIncrement
    <3>1. /\ phase' = "generating" /\ operands' = operands /\ nodes' = nodes
          /\ site' \in [kind : {"increment"}, x : Targets, delta : {-1, 1}, ir : {NoValue}]
      BY <2>2 DEF ParseIncrement
    <3>2. QED
      BY <3>1 DEF PendingSites
  <2>3. QED
    BY <2>1, <2>2
<1>2. Parsed'
  BY <1>1 DEF ExprInv, Parsed
<1>3. OutcomeRight'
  BY <1>1 DEF OutcomeRight, BoundsAreRight, LabelsMatch, StatementsAreRight, NeverCrashes, Decided
<1>4. QED
  BY <1>2, <1>3 DEF ExprInv

\* What CodeGen emits ends the run.
LEMMA EmitIs ==
  ASSUME ExprInv, phase = "generating", NEW ir, Emit(ir)
  PROVE  /\ Parsed' /\ (phase' = IF Usable(ir) THEN "accepted" ELSE "crashed")
         /\ site' = [site EXCEPT !.ir = ir] /\ site'.kind = site.kind /\ site'.ir = ir
         /\ site \in PendingSites /\ operands' = operands
<1>1. /\ site \in PendingSites
      /\ site' = [site EXCEPT !.ir = ir] /\ operands' = operands /\ nodes' = nodes
      /\ phase' = IF Usable(ir) THEN "accepted" ELSE "crashed"
  BY DEF ExprInv, Parsed, Emit
<1>2. site'.kind = site.kind /\ site'.ir = ir
  BY <1>1 DEF PendingSites
<1>3. site.kind \in {"none", "bound", "label", "condition", "store", "increment"}
  BY DEF ExprInv, Parsed
<1>4. phase' \in {"accepted", "crashed"}
  BY <1>1
<1>5. Parsed'
  BY <1>1, <1>2, <1>3, <1>4 DEF ExprInv, Parsed
<1>6. QED
  BY <1>1, <1>2, <1>5

\* The only node of a statement.
LEMMA OperandIs ==
  ASSUME ExprInv, phase = "generating", site.kind # "increment", operands' = operands
  PROVE  NodeInv(Last(1)) /\ Last(1)' = Last(1)
<1>1. Len(operands) = 1
  BY DEF ExprInv, Parsed
<1>2. QED
  BY <1>1, LastRight DEF Last

\* CodeGen at a label.
LEMMA VisitCaseStep ==
  ASSUME ExprInv, VisitCaseStmt
  PROVE  ExprInv'
<1>1. phase = "generating" /\ site.kind = "label"
  BY DEF VisitCaseStmt
<1>2. PICK n : n = Last(1)
  OBVIOUS
<1>3. PICK i : i = AssignCast(n.ir, Width(site.ty))
  OBVIOUS
<1>4. PICK e : e = IF IsConstantInt(i) THEN i ELSE Broken
  OBVIOUS
<1>5. Emit(e)
  BY <1>2, <1>3, <1>4 DEF VisitCaseStmt
<1>6. /\ Parsed' /\ (phase' = IF Usable(e) THEN "accepted" ELSE "crashed")
      /\ site' = [site EXCEPT !.ir = e] /\ site'.kind = "label" /\ site'.ir = e
      /\ site \in PendingSites /\ operands' = operands
  BY <1>1, <1>5, EmitIs
<1>7. NodeInv(n) /\ Last(1)' = n
  BY <1>1, <1>2, <1>6, OperandIs
<1>8. n.const.kind = "int"
  BY <1>1, <1>2 DEF ExprInv, Parsed
<1>9. PICK t \in IntegerTypes : t = site.ty /\ t = site'.ty
  <2>1. PICK x \in Targets : site.ty = x.ty /\ site'.ty = site.ty
    BY <1>1, <1>6 DEF PendingSites
  <2>2. x.ty \in IntegerTypes
    BY VariablesAssumption
  <2>3. QED
    BY <2>1, <2>2
<1>10. ASSUME LabelShapes(n, t) = {}, n.ref.defined
       PROVE  e = i /\ Usable(e) /\ i.w = Width(t) /\ i.v = Convert(CPromote(t), n.ref.v)
  BY <1>3, <1>4, <1>7, <1>8, <1>9, <1>10, LabelRight
<1>11. LabelsMatch'
  BY <1>6, <1>7, <1>9, <1>10 DEF LabelsMatch
<1>12. BoundsAreRight' /\ StatementsAreRight'
  BY <1>6 DEF BoundsAreRight, StatementsAreRight
<1>13. NeverCrashes'
  <2>1. phase' = "crashed" => LabelShapes(n, site'.ty) # {} \/ ~n.ref.defined
    BY <1>6, <1>9, <1>10
  <2>2. QED
    BY <1>6, <1>7, <2>1 DEF NeverCrashes
<1>14. QED
  BY <1>6, <1>11, <1>12, <1>13 DEF ExprInv, OutcomeRight

\* CodeGen at a condition.
LEMMA VisitConditionStep ==
  ASSUME ExprInv, VisitCondition
  PROVE  ExprInv'
<1>1. phase = "generating" /\ site.kind = "condition"
  BY DEF VisitCondition
<1>2. PICK n : n = Last(1)
  OBVIOUS
<1>3. PICK e : e = BoolCast(n.ir)
  OBVIOUS
<1>4. Emit(e)
  BY <1>2, <1>3 DEF VisitCondition
<1>5. /\ Parsed' /\ (phase' = IF Usable(e) THEN "accepted" ELSE "crashed")
      /\ site'.kind = "condition" /\ site'.ir = e /\ operands' = operands
  BY <1>1, <1>4, EmitIs
<1>6. NodeInv(n) /\ Last(1)' = n
  BY <1>1, <1>2, <1>5, OperandIs
<1>7. ASSUME n.shapes \cap GenShapes = {}
      PROVE  /\ Usable(e)
             /\ n.ref.defined => e = [Value(1, Truth(n.ref.v # 0), FALSE) EXCEPT !.folded = e.folded]
  BY <1>3, <1>6, <1>7, ConditionRight
<1>8. StatementShapes' = n.shapes \cap GenShapes
  BY <1>5, <1>6 DEF StatementShapes
<1>9. StatementsAreRight'
  <2>1. n.shapes \cap GenShapes = {} => BranchIsRight'
    BY <1>5, <1>6, <1>7 DEF BranchIsRight
  <2>2. QED
    BY <1>5, <1>8, <2>1 DEF StatementsAreRight
<1>10. BoundsAreRight' /\ LabelsMatch'
  BY <1>5 DEF BoundsAreRight, LabelsMatch
<1>11. NeverCrashes'
  <2>1. phase' = "crashed" => StatementShapes' # {}
    BY <1>5, <1>7, <1>8
  <2>2. QED
    BY <1>5, <2>1 DEF NeverCrashes
<1>12. QED
  BY <1>5, <1>9, <1>10, <1>11 DEF ExprInv, OutcomeRight

\* CodeGen at an assignment.
LEMMA VisitAssignStep ==
  ASSUME ExprInv, VisitAssignExpr
  PROVE  ExprInv'
<1>1. phase = "generating" /\ site.kind = "store"
  BY DEF VisitAssignExpr
<1>2. PICK n : n = Last(1)
  OBVIOUS
<1>3. PICK x : x = site.x
  OBVIOUS
<1>4. PICK op : op = site.op
  OBVIOUS
<1>5. PICK e : e = IF op = "assign" THEN GenAssign(GenVariableAccess(x.ty, x.v), n.ir)
                   ELSE GenOpAssign(op, GenVariableAccess(x.ty, x.v), n.ir)
  OBVIOUS
<1>6. Emit(e)
  BY <1>2, <1>3, <1>4, <1>5 DEF VisitAssignExpr
<1>7. /\ Parsed' /\ (phase' = IF Usable(e) THEN "accepted" ELSE "crashed")
      /\ site' = [site EXCEPT !.ir = e] /\ site'.kind = "store" /\ site'.ir = e
      /\ site \in PendingSites /\ operands' = operands
  BY <1>1, <1>6, EmitIs
<1>8. NodeInv(n) /\ Last(1)' = n
  BY <1>1, <1>2, <1>7, OperandIs
<1>9. x \in Targets /\ op \in AssignOps /\ site'.x = x /\ site'.op = op
  BY <1>1, <1>3, <1>4, <1>7 DEF PendingSites
<1>10. x \in Variables /\ (op = "assign" \/ op \in ValueOps)
  BY <1>9, VariablesAssumption DEF AssignOps
<1>11. PICK s : s = CCast(x.ty, IF op = "assign" THEN n.ref ELSE CBinary(op, CValue(x.ty, x.v), n.ref))
  OBVIOUS
<1>12. ASSUME StoreShapes(n, x, op) = {}
       PROVE  Usable(e) /\ e.w = Width(x.ty) /\ (s.defined => e.kind = "value" /\ e.v = s.v)
  <2>1. CASE op = "assign"
    <3>1. e = GenAssign(GenVariableAccess(x.ty, x.v), n.ir) /\ s = CCast(x.ty, n.ref)
      BY <1>5, <1>11, <2>1
    <3>2. StoreShapes(n, x, "assign") = {}
      BY <1>12, <2>1
    <3>3. QED
      BY <1>8, <1>10, <3>1, <3>2, AssignRight
  <2>2. CASE op \in ValueOps
    <3>1. op # "assign"
      BY <2>2 DEF ValueOps, Arithmetic, Bitwise, Shifts
    <3>2. /\ e = GenOpAssign(op, GenVariableAccess(x.ty, x.v), n.ir)
          /\ s = CCast(x.ty, CBinary(op, CValue(x.ty, x.v), n.ref))
      BY <1>5, <1>11, <3>1
    <3>3. QED
      BY <1>8, <1>10, <1>12, <2>2, <3>2, OpAssignRight
  <2>3. QED
    BY <1>10, <2>1, <2>2
<1>13. StatementShapes' = StoreShapes(n, x, op)
  BY <1>7, <1>8, <1>9 DEF StatementShapes
<1>14. CStored' = s
  <2>1. CValue(x.ty, x.v).ty = x.ty
    BY DEF CValue
  <2>2. CStored' = CCast(CValue(x.ty, x.v).ty,
                         IF op = "assign" THEN n.ref ELSE CBinary(op, CValue(x.ty, x.v), n.ref))
    BY <1>7, <1>8, <1>9 DEF CStored
  <2>3. QED
    BY <1>11, <2>1, <2>2
<1>15. StatementsAreRight'
  <2>1. StoreShapes(n, x, op) = {} => StoreFits'
    BY <1>7, <1>9, <1>12, <1>14 DEF StoreFits
  <2>2. QED
    BY <1>7, <1>13, <2>1 DEF StatementsAreRight
<1>16. BoundsAreRight' /\ LabelsMatch'
  BY <1>7 DEF BoundsAreRight, LabelsMatch
<1>17. NeverCrashes'
  <2>1. phase' = "crashed" => StatementShapes' # {}
    BY <1>7, <1>12, <1>13
  <2>2. QED
    BY <1>7, <2>1 DEF NeverCrashes
<1>18. QED
  BY <1>7, <1>15, <1>16, <1>17 DEF ExprInv, OutcomeRight

\* CodeGen at ++ or --.
LEMMA VisitIncrementStep ==
  ASSUME ExprInv, VisitIncrement
  PROVE  ExprInv'
<1>1. phase = "generating" /\ site.kind = "increment"
  BY DEF VisitIncrement
<1>2. PICK x : x = site.x
  OBVIOUS
<1>3. PICK d : d = site.delta
  OBVIOUS
<1>4. PICK e : e = GenIncrement(GenVariableAccess(x.ty, x.v), d)
  OBVIOUS
<1>5. Emit(e)
  BY <1>2, <1>3, <1>4 DEF VisitIncrement
<1>6. /\ Parsed' /\ (phase' = IF Usable(e) THEN "accepted" ELSE "crashed")
      /\ site' = [site EXCEPT !.ir = e] /\ site'.kind = "increment" /\ site'.ir = e
      /\ site \in PendingSites /\ operands' = operands
  BY <1>1, <1>5, EmitIs
<1>7. x \in Targets /\ d \in {-1, 1} /\ site'.x = x /\ site'.delta = d
  BY <1>1, <1>2, <1>3, <1>6 DEF PendingSites
<1>8. x \in Variables
  BY <1>7, VariablesAssumption
<1>9. PICK s : s = CCast(x.ty, CBinary("add", CValue(x.ty, x.v), CValue("Int", d)))
  OBVIOUS
<1>10. IncrementShapes(x) = {} =>
         Usable(e) /\ e.w = Width(x.ty) /\ (s.defined => e.kind = "value" /\ e.v = s.v)
  BY <1>4, <1>7, <1>8, <1>9, IncrementRight
<1>11. StatementShapes' = IncrementShapes(x)
  BY <1>6, <1>7 DEF StatementShapes
<1>12. CStored' = s
  <2>1. CValue(x.ty, x.v).ty = x.ty
    BY DEF CValue
  <2>2. CStored' = CCast(CValue(x.ty, x.v).ty, CBinary("add", CValue(x.ty, x.v), CValue("Int", d)))
    BY <1>6, <1>7 DEF CStored
  <2>3. QED
    BY <1>9, <2>1, <2>2
<1>13. StatementsAreRight'
  <2>1. IncrementShapes(x) = {} => StoreFits'
    BY <1>6, <1>7, <1>10, <1>12 DEF StoreFits
  <2>2. QED
    BY <1>6, <1>11, <2>1 DEF StatementsAreRight
<1>14. BoundsAreRight' /\ LabelsMatch'
  BY <1>6 DEF BoundsAreRight, LabelsMatch
<1>15. NeverCrashes'
  <2>1. phase' = "crashed" => StatementShapes' # {}
    BY <1>6, <1>10, <1>11
  <2>2. QED
    BY <1>6, <2>1 DEF NeverCrashes
<1>16. QED
  BY <1>6, <1>13, <1>14, <1>15 DEF ExprInv, OutcomeRight

\* Nothing is right or wrong at the start.
LEMMA InitExpr ==
  ASSUME Init
  PROVE  ExprInv
<1>1. operands = <<>> /\ nodes = 0 /\ phase = "parsing" /\ site = NoSite
  BY DEF Init
<1>2. operands \in Seq(Node) /\ \A k \in 1 .. Len(operands) : NodeInv(operands[k])
  BY <1>1
<1>3. Parsed
  BY <1>1, <1>2, BoundAssumption DEF Parsed, NoSite
<1>4. OutcomeRight
  BY <1>1 DEF OutcomeRight, BoundsAreRight, LabelsMatch, StatementsAreRight, NeverCrashes, Decided
<1>5. QED
  BY <1>3, <1>4 DEF ExprInv

\* Every step keeps the invariant: the parse functions make right nodes, and the
\* statement at the root comes to the right outcome.
LEMMA NextExpr ==
  ASSUME ExprInv, [Next]_vars
  PROVE  ExprInv'
<1>1. CASE ParsePrimaryNumber
  <2>1. PICK lit \in Literals : Reduce(0, NumberExpr(lit))
    BY <1>1 DEF ParsePrimaryNumber
  <2>2. NodeInv(NumberExpr(lit)) /\ 0 \in Nat
    BY NumberRight
  <2>3. QED
    BY <2>1, <2>2, ReduceRight
<1>2. CASE ParsePrimaryIdentifier
  <2>1. PICK x \in Variables : Reduce(0, VariableAccessExpr(x))
    BY <1>2 DEF ParsePrimaryIdentifier
  <2>2. NodeInv(VariableAccessExpr(x)) /\ 0 \in Nat
    BY VariableRight
  <2>3. QED
    BY <2>1, <2>2, ReduceRight
<1>3. CASE ParseUnary
  <2>1. PICK op \in UnaryOps :
          /\ phase = "parsing" /\ 1 \in 1 .. Len(operands)
          /\ IF Last(1).ty = "Int" THEN Reduce(1, UnaryExpr(op, Last(1))) ELSE Reject
    BY <1>3 DEF ParseUnary, Room, ExprInv, Parsed
  <2>2. PICK x : x = Last(1) /\ NodeInv(x)
    BY <2>1, LastRight
  <2>3. CASE x.ty = "Int"
    <3>1. NodeInv(UnaryExpr(op, x)) /\ 1 \in Nat
      BY <2>2, <2>3, UnaryRight
    <3>2. Reduce(1, UnaryExpr(op, x))
      BY <2>1, <2>2, <2>3
    <3>3. QED
      BY <3>1, <3>2, ReduceRight
  <2>4. CASE x.ty # "Int"
    BY <2>1, <2>2, <2>4, RejectRight
  <2>5. QED
    BY <2>3, <2>4
<1>4. CASE ParseSizeOf
  <2>1. CASE \E t \in IntegerTypes : Reduce(0, SizeOfExpr(t, t))
    <3>1. PICK t \in IntegerTypes : Reduce(0, SizeOfExpr(t, t))
      BY <2>1
    <3>2. NodeInv(SizeOfExpr(t, t)) /\ 0 \in Nat
      BY SizeOfRight
    <3>3. QED
      BY <3>1, <3>2, ReduceRight
  <2>2. CASE Room(1) /\ Reduce(1, SizeOfExpr(Last(1).ty, Last(1).ref.ty))
    <3>1. 1 \in 1 .. Len(operands)
      BY <2>2 DEF Room, ExprInv, Parsed
    <3>2. PICK x : x = Last(1) /\ NodeInv(x)
      BY <3>1, LastRight
    <3>3. x.ty \in IntegerTypes /\ x.ref.ty \in IntegerTypes
      BY <3>2 DEF NodeInv, NodeTyped, CTyped
    <3>4. NodeInv(SizeOfExpr(x.ty, x.ref.ty)) /\ 1 \in Nat
      BY <3>3, SizeOfRight
    <3>5. Reduce(1, SizeOfExpr(x.ty, x.ref.ty))
      BY <2>2, <3>2
    <3>6. QED
      BY <3>4, <3>5, ReduceRight
  <2>3. QED
    BY <1>4, <2>1, <2>2 DEF ParseSizeOf
<1>5. CASE ParseCast
  <2>1. PICK t \in IntegerTypes : Reduce(1, CastExpr(t, Last(1)))
    BY <1>5 DEF ParseCast
  <2>2. 1 \in 1 .. Len(operands)
    BY <1>5 DEF ParseCast, Room, ExprInv, Parsed
  <2>3. PICK x : x = Last(1) /\ NodeInv(x)
    BY <2>2, LastRight
  <2>4. NodeInv(CastExpr(t, x)) /\ 1 \in Nat
    BY <2>3, CastRight
  <2>5. Reduce(1, CastExpr(t, x))
    BY <2>1, <2>3
  <2>6. QED
    BY <2>4, <2>5, ReduceRight
<1>6. CASE ParseBinary
  <2>1. PICK op \in BinaryOps : Reduce(2, BinaryExpr(op, Last(2), Last(1)))
    BY <1>6 DEF ParseBinary
  <2>2. 1 \in 1 .. Len(operands) /\ 2 \in 1 .. Len(operands)
    BY <1>6 DEF ParseBinary, Room, ExprInv, Parsed
  <2>3. PICK l : l = Last(2) /\ NodeInv(l)
    BY <2>2, LastRight
  <2>4. PICK r : r = Last(1) /\ NodeInv(r)
    BY <2>2, LastRight
  <2>5. NodeInv(BinaryExpr(op, l, r)) /\ 2 \in Nat
    BY <2>3, <2>4, BinaryRight
  <2>6. Reduce(2, BinaryExpr(op, l, r))
    BY <2>1, <2>3, <2>4
  <2>7. QED
    BY <2>5, <2>6, ReduceRight
<1>7. CASE ParseConditional
  <2>1. /\ phase = "parsing"
        /\ 1 \in 1 .. Len(operands) /\ 2 \in 1 .. Len(operands) /\ 3 \in 1 .. Len(operands)
    BY <1>7 DEF ParseConditional, Room, ExprInv, Parsed
  <2>2. PICK x : x = Last(3) /\ NodeInv(x)
    BY <2>1, LastRight
  <2>3. PICK y : y = Last(2) /\ NodeInv(y)
    BY <2>1, LastRight
  <2>4. PICK z : z = Last(1) /\ NodeInv(z)
    BY <2>1, LastRight
  <2>5. IF y.ty = z.ty THEN Reduce(3, ThreeExpr(x, y, z)) ELSE Reject
    BY <1>7, <2>2, <2>3, <2>4 DEF ParseConditional
  <2>6. CASE y.ty = z.ty
    <3>1. NodeInv(ThreeExpr(x, y, z)) /\ 3 \in Nat
      BY <2>2, <2>3, <2>4, <2>6, ThreeRight
    <3>2. QED
      BY <2>5, <2>6, <3>1, ReduceRight
  <2>7. CASE y.ty # z.ty
    BY <2>1, <2>5, <2>7, RejectRight
  <2>8. QED
    BY <2>6, <2>7
<1>8. CASE UNCHANGED vars
  <2>1. operands' = operands /\ nodes' = nodes /\ phase' = phase /\ site' = site
    BY <1>8 DEF vars
  <2>2. Parsed'
    BY <2>1 DEF ExprInv, Parsed, Last
  <2>3. OutcomeRight'
    <3>1. Last(1)' = Last(1)
      BY <2>1 DEF Last
    <3>2. StatementShapes' = StatementShapes /\ CStored' = CStored
      BY <2>1, <3>1 DEF StatementShapes, CStored
    <3>3. (StoreFits' <=> StoreFits) /\ (BranchIsRight' <=> BranchIsRight)
      BY <2>1, <3>1, <3>2 DEF StoreFits, BranchIsRight
    <3>4. BoundsAreRight' /\ LabelsMatch'
      BY <2>1, <3>1 DEF ExprInv, OutcomeRight, BoundsAreRight, LabelsMatch, Decided
    <3>5. StatementsAreRight'
      BY <2>1, <3>2, <3>3 DEF ExprInv, OutcomeRight, StatementsAreRight, Decided
    <3>6. NeverCrashes'
      BY <2>1, <3>1, <3>2 DEF ExprInv, OutcomeRight, NeverCrashes
    <3>7. QED
      BY <3>4, <3>5, <3>6 DEF OutcomeRight
  <2>4. QED
    BY <2>2, <2>3 DEF ExprInv
<1>9. CASE Terminated
  BY <1>8, <1>9 DEF Terminated
<1>10. QED
  BY <1>1, <1>2, <1>3, <1>4, <1>5, <1>6, <1>7, <1>8, <1>9, BoundStep, CaseStep, StatementStep,
     VisitCaseStep, VisitConditionStep, VisitAssignStep, VisitIncrementStep DEF Next

\* The invariant holds of every expression.
LEMMA ExprSafe == Spec => []ExprInv
BY InitExpr, NextExpr, PTL DEF Spec

-----------------------------------------------------------------------------
(* The theorems *)

\* What the four readers make of a node has its type: the constant fits an
\* int64_t, C's number its type and LLVM's its width.
THEOREM ValuesTyped == Spec => []TypeOK
<1>1. ASSUME ExprInv PROVE TypeOK
  <2>1. operands \in Seq(Node) /\ nodes \in 0 .. MaxNodes
        /\ phase \in {"parsing", "generating", "accepted", "rejected", "crashed"}
        /\ site.kind \in {"none", "bound", "label", "condition", "store", "increment"}
    BY <1>1 DEF ExprInv, Parsed
  <2>2. ASSUME NEW k \in DOMAIN operands
        PROVE  LET n == operands[k]
               IN  /\ Fits("Long", n.const.v) /\ Fits(n.ref.ty, n.ref.v)
                   /\ n.ir.kind = "value" => SignedOf(n.ir.w, n.ir.v) = n.ir.v
    <3>1. PICK n : n = operands[k] /\ NodeInv(n)
      BY <1>1, <2>1 DEF ExprInv, Parsed
    <3>2. Fits("Long", n.const.v) /\ Fits(n.ref.ty, n.ref.v) /\ IrTyped(n.ir)
      BY <3>1 DEF NodeInv, NodeTyped, CTyped, ConstTyped
    <3>3. n.ir.kind = "value" => n.ir.w \in Widths /\ n.ir.v \in Int /\ InWord(n.ir.w, n.ir.v)
      BY <3>2, ValueWidthIs DEF IrTyped, Usable
    <3>4. n.ir.kind = "value" => SignedOf(n.ir.w, n.ir.v) = n.ir.v
      BY <3>3, SignedIs
    <3>5. QED
      BY <3>1, <3>2, <3>4
  <2>3. QED
    BY <2>1, <2>2 DEF TypeOK
<1>2. QED
  BY <1>1, ExprSafe, PTL

\* The nodes that the invariant is about.
LEMMA NodesRight ==
  ASSUME ExprInv, NEW k \in DOMAIN operands
  PROVE  NodeInv(operands[k])
BY DEF ExprInv, Parsed

\* CodeGen computes C's value, at the width of C's type.
THEOREM ValuesRight == Spec => []ValuesAreRight
<1>1. ASSUME ExprInv PROVE ValuesAreRight
  <2>1. ASSUME NEW k \in DOMAIN operands PROVE GenRight(operands[k])
    BY <1>1, NodesRight DEF NodeInv
  <2>2. QED
    BY <2>1 DEF ValuesAreRight, GenRight
<1>2. QED
  BY <1>1, ExprSafe, PTL

\* EvalConstant finds C's value of what it does not reject.
THEOREM ConstantsRight == Spec => []ConstantsAreRight
<1>1. ASSUME ExprInv PROVE ConstantsAreRight
  <2>1. ASSUME NEW k \in DOMAIN operands PROVE ConstRight(operands[k])
    BY <1>1, NodesRight DEF NodeInv
  <2>2. QED
    BY <2>1 DEF ConstantsAreRight, ConstRight
<1>2. QED
  BY <1>1, ExprSafe, PTL

\* An array has as many elements as C says, or is refused.
THEOREM BoundsRight == Spec => []BoundsAreRight
<1>1. ExprInv => BoundsAreRight
  BY DEF ExprInv, OutcomeRight
<1>2. QED
  BY <1>1, ExprSafe, PTL

\* A label is the constant of LLVM that equals the switch's value when it does in C.
THEOREM LabelsRight == Spec => []LabelsMatch
<1>1. ExprInv => LabelsMatch
  BY DEF ExprInv, OutcomeRight
<1>2. QED
  BY <1>1, ExprSafe, PTL

\* A store leaves C's value in its variable, and a condition takes C's branch.
THEOREM StatementsRight == Spec => []StatementsAreRight
<1>1. ExprInv => StatementsAreRight
  BY DEF ExprInv, OutcomeRight
<1>2. QED
  BY <1>1, ExprSafe, PTL

\* The compiler neither refuses its own output nor stops in its evaluator.
THEOREM NoCrash == Spec => []NeverCrashes
<1>1. ExprInv => NeverCrashes
  BY DEF ExprInv, OutcomeRight
<1>2. QED
  BY <1>1, ExprSafe, PTL

=============================================================================
