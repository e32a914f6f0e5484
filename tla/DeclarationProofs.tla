------------------------- MODULE DeclarationProofs -------------------------
(***************************************************************************)
(* In whatever order its keywords come, ParseDeclSpec gives a declaration  *)
(* the type of C, and rejects only keywords that name no type.  The first  *)
(* invariant relates the four enumerations to the keywords read: each says *)
(* which of its keywords occurred and how often.                           *)
(*                                                                         *)
(* Whatever the parser of declarations reads twice, and however deep its   *)
(* calls are, it puts back what it changed.  The second invariant relates  *)
(* its stack of calls to the stacks of the lexer and of Sema: the calls    *)
(* that read ahead are, in their order, the places to go back to; with     *)
(* those in a typedef's declarator they are the modes beyond the first;    *)
(* and the calls that opened a scope are the scopes beyond the file's.     *)
(***************************************************************************)
EXTENDS Declarations, StackLemmas

\* The keywords for a sign.
Signs == {"signed", "unsigned"}

\* How often the enumerations say that the keyword t was read.
One(is) == IF is THEN 1 ELSE 0

\* Each enumeration says which of its keywords was read, and only long twice.
Counted ==
    /\ \A t \in Kinds : counts[t] = One(kind = t)
    /\ \A t \in Signs : counts[t] = One(sig = t)
    /\ \A t \in UserTypes : counts[t] = One(usertype = t)
    /\ \A t \in StorageClasses : counts[t] = One(sclass = t)
    /\ counts["short"] = One(size = "short")
    /\ counts["long"] = IF size = "llong" THEN 2 ELSE One(size = "long")

\* Nothing was read that a check would have reported.
IInv ==
    /\ SpecTypeOK
    /\ status # "rejected" => Counted /\ ~Clash(kind, size, sig, usertype)
    /\ RejectionIsRight

-----------------------------------------------------------------------------
(* The types of C *)

\* How often each keyword is in a list that names the type of c.
LEMMA OccurrencesOf ==
  ASSUME NEW c \in CTypes
  PROVE  /\ \A t \in Kinds \cup UserTypes : Occurrences(c, t) = One(c.base = t)
         /\ Occurrences(c, "short") = One(c.longs = "short")
         /\ Occurrences(c, "long") = IF c.longs = "llong" THEN 2 ELSE One(c.longs = "long")
         /\ \A t \in Signs : Occurrences(c, t) = One(c.signs = t)
BY DEF Occurrences, One, Signs, Kinds, UserTypes

\* What the parts of a type exclude in each other.
LEMMA PartsOfType ==
  ASSUME NEW c \in CTypes
  PROVE  /\ c.longs = "short" => c.base \in {"none", "int"}
         /\ c.longs \in {"long", "llong"} => c.base \in {"none", "int", "double"}
         /\ c.signs # "none" => c.base \notin {"void", "float", "double", "record"}
         /\ c.base = "record" => c.longs = "none" /\ c.signs = "none"
BY DEF CTypes, Named

-----------------------------------------------------------------------------
(* Types are right *)

\* The enumerations at the end of the specifiers name a type of C.
LEMMA DoneIsTyped ==
  ASSUME SpecTypeOK, Counted, ~Clash(kind, size, sig, usertype), SpecShapes = {}
  PROVE  \E c \in CTypes : NamesType(counts, c) /\ DeclaredType = c.type
<1>1. ~\A t \in TypeSpecifiers : counts[t] = 0
  BY DEF SpecShapes, ShapesOf
<1>2. ~(counts["char"] > 0 /\ counts["unsigned"] > 0)
  BY DEF SpecShapes, ShapesOf
<1>3. ~(counts["long"] > 1 /\ \E k \in Kinds \ {"int"} : counts[k] > 0)
  BY DEF SpecShapes, ShapesOf
<1> DEFINE base == IF usertype # Unused THEN usertype ELSE IF kind # Unused THEN kind ELSE "none"
           longs == IF size # Unused THEN size ELSE "none"
           signs == IF sig # Unused THEN sig ELSE "none"
           c == [base |-> base, longs |-> longs, signs |-> signs, type |-> DeclaredType]
<1>4. kind = "char" => sig # "unsigned"
  BY <1>2 DEF Counted, One, Kinds, Signs
<1>5. size = "llong" => kind \in {Unused, "int"}
  BY <1>3 DEF Counted, One, Kinds, SpecTypeOK
<1>6. kind # Unused \/ size # Unused \/ sig # Unused \/ usertype # Unused
  BY <1>1 DEF Counted, One, Kinds, Signs, UserTypes, TypeSpecifiers, Unused
<1>7. c \in CTypes
  <2> USE <1>4, <1>5, <1>6 DEF SpecTypeOK, Clash, DeclaredType, IntegerType, Signedness, Unused
  <2>1. CASE usertype # Unused
    <3>1. kind = Unused /\ size = Unused /\ sig = Unused
      BY <2>1
    <3>2. c = [base |-> usertype, longs |-> "none", signs |-> "none", type |-> usertype]
      BY <2>1, <3>1
    <3>3. QED
      BY <2>1, <3>2 DEF CTypes, Named, UserTypes
  <2>2. CASE usertype = Unused /\ kind \in {"void", "char", "float", "double"}
    <3>1. longs \in {"none", "long"} /\ signs \in {"none", "signed"}
      BY <2>2
    <3>2. /\ longs = "long" => kind = "double"
          /\ signs = "signed" => kind = "char"
      BY <2>2
    <3>3. CASE kind = "void"
      BY <2>2, <3>1, <3>2, <3>3 DEF CTypes, Named
    <3>4. CASE kind = "char"
      BY <2>2, <3>1, <3>2, <3>4 DEF CTypes, Named
    <3>5. CASE kind = "float"
      BY <2>2, <3>1, <3>2, <3>5 DEF CTypes, Named
    <3>6. CASE kind = "double"
      <4>1. signs = "none"
        BY <2>2, <3>1, <3>2, <3>6
      <4>2. CASE longs = "none"
        <5>1. DeclaredType = "Double"
          BY <2>2, <3>6, <4>2
        <5>2. QED
          BY <2>2, <3>6, <4>1, <4>2, <5>1 DEF CTypes, Named
      <4>3. CASE longs = "long"
        <5>1. size = "long"
          BY <4>3
        <5>2. DeclaredType = "LDouble"
          BY <2>2, <3>6, <5>1
        <5>3. QED
          BY <2>2, <3>6, <4>1, <4>3, <5>2 DEF CTypes, Named
      <4>4. QED
        BY <3>1, <4>2, <4>3
    <3>7. QED
      BY <2>2, <3>3, <3>4, <3>5, <3>6
  <2>3. CASE usertype = Unused /\ kind \in {"int", Unused}
    <3>1. base \in {"none", "int"} /\ signs \in {"none", "signed", "unsigned"}
      BY <2>3
    <3>2. CASE size = Unused
      <4>1. base = "none" => signs # "none"
        BY <2>3, <3>2
      <4>2. QED
        BY <2>3, <3>1, <3>2, <4>1 DEF CTypes, Named
    <3>3. CASE size = "short"
      BY <2>3, <3>1, <3>3 DEF CTypes, Named
    <3>4. CASE size = "long"
      BY <2>3, <3>1, <3>4 DEF CTypes, Named
    <3>5. CASE size = "llong"
      BY <2>3, <3>1, <3>5 DEF CTypes, Named
    <3>6. QED
      BY <3>2, <3>3, <3>4, <3>5
  <2>4. QED
    BY <2>1, <2>2, <2>3 DEF Kinds
<1>8. NamesType(counts, c)
  <2>1. /\ c.base = base /\ c.longs = longs /\ c.signs = signs
        /\ usertype # Unused => kind = Unused
    BY DEF Clash
  <2> HIDE DEF c
  <2>2. ASSUME NEW t \in Kinds \cup UserTypes
        PROVE  counts[t] = Occurrences(c, t)
    <3>1. counts[t] = One(base = t)
      BY <2>1 DEF Counted, One, Kinds, UserTypes, SpecTypeOK, Unused
    <3>2. QED
      BY <1>7, <2>1, <3>1, OccurrencesOf
  <2>3. ASSUME NEW t \in Signs
        PROVE  counts[t] = Occurrences(c, t)
    <3>1. counts[t] = One(signs = t)
      BY DEF Counted, One, Signs, SpecTypeOK, Unused
    <3>2. QED
      BY <1>7, <2>1, <3>1, OccurrencesOf
  <2>4. counts["short"] = Occurrences(c, "short") /\ counts["long"] = Occurrences(c, "long")
    BY <1>7, <2>1, OccurrencesOf DEF Counted, One, SpecTypeOK, Unused
  <2>5. QED
    BY <2>2, <2>3, <2>4 DEF NamesType, TypeSpecifiers, Signs
<1>9. QED
  BY <1>7, <1>8

-----------------------------------------------------------------------------
(* Rejections are right *)

\* The keyword of an enumeration that is set already.
LEMMA SecondOfOne ==
  ASSUME SpecTypeOK, Counted, NEW t \in Keywords, NEW n,
         n = [counts EXCEPT ![t] = @ + 1],
         \/ t \in Kinds /\ kind # Unused
         \/ t \in Signs /\ sig # Unused
         \/ t = "short" /\ size # Unused
         \/ t = "long" /\ size \notin {Unused, "long"}
         \/ t \in UserTypes /\ usertype # Unused
         \/ t \in StorageClasses /\ sclass # Unused,
         NEW c \in CTypes
  PROVE  ~Completes(n, c)
<1> SUFFICES ASSUME Completes(n, c)
             PROVE  FALSE
  OBVIOUS
<1>1. \A s \in Keywords : n[s] = IF s = t THEN counts[s] + 1 ELSE counts[s]
  BY DEF SpecTypeOK
<1>2. \A s \in TypeSpecifiers : n[s] <= Occurrences(c, s)
  BY DEF Completes
<1>3. OneStorageClass(n)
  BY DEF Completes
<1> HIDE DEF Completes
<1> USE DEF SpecTypeOK, Counted, One, Unused
<1>4. CASE t \in Kinds /\ kind # Unused
  <2>1. n[t] <= One(c.base = t) /\ n[kind] <= One(c.base = kind)
    BY <1>2, <1>4, OccurrencesOf DEF TypeSpecifiers
  <2>2. QED
    BY <1>1, <1>4, <2>1 DEF Keywords, TypeSpecifiers
<1>5. CASE t \in Signs /\ sig # Unused
  <2>1. n[t] <= One(c.signs = t) /\ n[sig] <= One(c.signs = sig)
    BY <1>2, <1>5, OccurrencesOf DEF TypeSpecifiers, Signs
  <2>2. QED
    BY <1>1, <1>5, <2>1 DEF Keywords, TypeSpecifiers, Signs
<1>6. CASE (t = "short" /\ size # Unused) \/ (t = "long" /\ size \notin {Unused, "long"})
  <2>1. /\ n["short"] <= One(c.longs = "short")
        /\ n["long"] <= IF c.longs = "llong" THEN 2 ELSE One(c.longs = "long")
    BY <1>2, OccurrencesOf DEF TypeSpecifiers
  <2>2. QED
    BY <1>1, <1>6, <2>1 DEF Keywords, TypeSpecifiers
<1>7. CASE t \in UserTypes /\ usertype # Unused
  <2>1. n[t] <= One(c.base = t) /\ n[usertype] <= One(c.base = usertype)
    BY <1>2, <1>7, OccurrencesOf DEF TypeSpecifiers
  <2>2. QED
    BY <1>1, <1>7, <2>1 DEF Keywords, TypeSpecifiers
<1>8. CASE t \in StorageClasses /\ sclass # Unused
  <2>1. n[t] + (IF t = sclass THEN 0 ELSE n[sclass]) <= 1
    BY <1>3, <1>8 DEF OneStorageClass
  <2>2. QED
    BY <1>1, <1>8, <2>1 DEF Keywords
<1> HIDE DEF SpecTypeOK, Counted, One, Unused
<1>9. QED
  BY <1>4, <1>5, <1>6, <1>7, <1>8

\* Enumerations that exclude each other.
LEMMA ClashIsNoType ==
  ASSUME NEW k, NEW z, NEW s, NEW u, NEW n, NEW c \in CTypes, Completes(n, c), Clash(k, z, s, u),
         n \in [Keywords -> Nat],
         k \in Kinds => n[k] > 0, k \in Kinds \cup {Unused},
         z \in {"short", "long", Unused} \/ z = "llong",
         z = "short" => n["short"] > 0,
         z = "long" => n["long"] > 0,
         s \in Signs \cup {Unused}, s \in Signs => n[s] > 0,
         u \in UserTypes \cup {Unused}, u \in UserTypes => n[u] > 0,
         z = "llong" => n["long"] > 1
  PROVE  "typedefAsName" \in ShapesOf(n)
<1>1. \A t \in TypeSpecifiers : n[t] <= Occurrences(c, t)
  BY DEF Completes
<1>2. /\ k \in Kinds => c.base = k
      /\ s \in Signs => c.signs = s
      /\ u \in UserTypes => c.base = u
      /\ z = "short" => c.longs = "short"
      /\ z \in {"long", "llong"} => c.longs \in {"long", "llong"}
  BY <1>1, OccurrencesOf DEF TypeSpecifiers, One, Keywords, Signs
<1>3. u = "typename" /\ (k # Unused \/ z # Unused \/ s # Unused)
  BY <1>2, PartsOfType DEF Clash, Signs, Kinds, UserTypes, Unused
<1>4. n["typename"] > 0 /\ \E t \in TypeSpecifiers \ {"typename"} : n[t] > 0
  <2>1. n["typename"] > 0
    BY <1>3 DEF UserTypes
  <2>2. CASE k # Unused
    BY <2>1, <2>2 DEF TypeSpecifiers, Kinds
  <2>3. CASE z # Unused
    <3>1. n["short"] > 0 \/ n["long"] > 0
      BY <2>3 DEF Keywords, TypeSpecifiers
    <3>2. QED
      BY <2>1, <3>1 DEF TypeSpecifiers
  <2>4. CASE s # Unused
    BY <2>1, <2>4 DEF TypeSpecifiers, Signs
  <2>5. QED
    BY <1>3, <2>2, <2>3, <2>4
<1>5. "typedefAsName" \in {s1 \in {"typedefAsName"} :
          n["typename"] > 0 /\ \E t \in TypeSpecifiers \ {"typename"} : n[t] > 0}
  BY <1>4
<1>6. QED
  BY <1>5, Zenon DEF ShapesOf

-----------------------------------------------------------------------------
(* The invariant *)

\* The enumerations count what was read when they did and a free one is set.
LEMMA StartCounted ==
  ASSUME kind = Unused, size = Unused, sig = Unused, sclass = Unused, usertype = Unused,
         status = "reading", counts = NoKeywords
  PROVE  IInv
<1>1. SpecTypeOK
  BY DEF SpecTypeOK, NoKeywords
<1>2. \A t \in Keywords : counts[t] = 0
  BY DEF NoKeywords
<1>3. Counted
  BY <1>2 DEF Counted, One, Unused, Keywords, TypeSpecifiers, Kinds, Signs, UserTypes, StorageClasses
<1>4. ~Clash(kind, size, sig, usertype)
  BY DEF Clash, Unused
<1>5. RejectionIsRight
  BY DEF RejectionIsRight
<1>6. QED
  BY <1>1, <1>3, <1>4, <1>5 DEF IInv

\* What the enumerations name was read.
AtLeast ==
    /\ kind \in Kinds => counts[kind] > 0
    /\ size = "short" => counts["short"] > 0
    /\ size = "long" => counts["long"] > 0
    /\ size = "llong" => counts["long"] > 1
    /\ sig \in Signs => counts[sig] > 0
    /\ usertype \in UserTypes => counts[usertype] > 0

\* After a keyword the enumerations count it too, or it was one too many.
LEMMA ReadCounts ==
  ASSUME IInv, NEW t \in Keywords, NEW free \in BOOLEAN,
         status = "reading", SpecTypeOK', Read(t, free),
         free => Counted',
         ~free => \A c \in CTypes : ~Completes([counts EXCEPT ![t] = @ + 1], c),
         AtLeast'
  PROVE  IInv'
<1>1. counts' = [counts EXCEPT ![t] = @ + 1]
  BY DEF Read
<1>2. status' # "rejected" => free /\ ~Clash(kind', size', sig', usertype')
  BY DEF Read
<1>3. status' = "rejected" => ~free \/ Clash(kind', size', sig', usertype')
  BY DEF Read
<1>4. (status # "rejected" => Counted /\ ~Clash(kind, size, sig, usertype))'
  BY <1>2
<1>5. ASSUME NEW c \in CTypes, Completes(counts', c), Clash(kind', size', sig', usertype')
      PROVE  "typedefAsName" \in ShapesOf(counts')
  <2>1. /\ kind' \in Kinds \cup {Unused}
        /\ size' \in {"short", "long", Unused} \/ size' = "llong"
        /\ sig' \in Signs \cup {Unused}
        /\ usertype' \in UserTypes \cup {Unused}
        /\ counts' \in [Keywords -> Nat]
    BY DEF SpecTypeOK, Signs
  <2>2. QED
    BY <1>5, <2>1, ClashIsNoType DEF AtLeast
<1>6. RejectionIsRight'
  BY <1>1, <1>3, <1>5 DEF RejectionIsRight, SpecShapes
<1>7. QED
  BY <1>4, <1>6 DEF IInv

\* Every keyword keeps the invariant.
LEMMA KeywordKeeps ==
  ASSUME IInv, NEW t \in Keywords, ReadKeyword(t)
  PROVE  IInv'
<1>1. IInv /\ status = "reading" /\ SpecTypeOK /\ Counted /\ t \in Keywords
  BY DEF IInv, ReadKeyword
<1>2. counts' = [counts EXCEPT ![t] = @ + 1]
  BY DEF ReadKeyword, ReadKind, ReadSign, ReadShort, ReadLong, ReadUserType, ReadStorageClass, ReadQualifier, Read
<1>3. AtLeast
  BY <1>1 DEF AtLeast, Counted, One, Signs
<1>4. CASE ReadKind(t)
  <2>1. Read(t, kind = Unused) /\ (kind = Unused) \in BOOLEAN
    BY <1>4 DEF ReadKind
  <2>2. SpecTypeOK'
    BY <1>1, <1>4, <2>1 DEF SpecTypeOK, Read, ReadKind, Set, Kinds, UserTypes, StorageClasses, Unused
  <2>3. (kind = Unused) => Counted'
    BY <1>1, <1>4, <2>1, <1>2 DEF Counted, One, ReadKind, Set, SpecTypeOK,
       Kinds, Signs, UserTypes, StorageClasses, Qualifiers, Unused
  <2>4. ~(kind = Unused) => \A c \in CTypes : ~Completes([counts EXCEPT ![t] = @ + 1], c)
    BY <1>1, <1>4, SecondOfOne DEF ReadKind, Signs
  <2>5. AtLeast'
    BY <1>1, <1>4, <1>2, <1>3, <2>1 DEF AtLeast, ReadKind, Set, SpecTypeOK, Kinds, Signs, UserTypes, Unused
  <2>6. QED
    BY <1>1, <2>1, <2>2, <2>3, <2>4, <2>5, ReadCounts
<1>5. CASE ReadSign(t)
  <2>1. Read(t, sig = Unused) /\ (sig = Unused) \in BOOLEAN
    BY <1>5 DEF ReadSign
  <2>2. SpecTypeOK'
    BY <1>1, <1>5, <2>1 DEF SpecTypeOK, Read, ReadSign, Set, Kinds, UserTypes, StorageClasses, Unused
  <2>3. (sig = Unused) => Counted'
    BY <1>1, <1>5, <2>1, <1>2 DEF Counted, One, ReadSign, Set, SpecTypeOK,
       Kinds, Signs, UserTypes, StorageClasses, Qualifiers, Unused
  <2>4. ~(sig = Unused) => \A c \in CTypes : ~Completes([counts EXCEPT ![t] = @ + 1], c)
    BY <1>1, <1>5, SecondOfOne DEF ReadSign, Signs
  <2>5. AtLeast'
    BY <1>1, <1>5, <1>2, <1>3, <2>1 DEF AtLeast, ReadSign, Set, SpecTypeOK, Kinds, Signs, UserTypes, Unused
  <2>6. QED
    BY <1>1, <2>1, <2>2, <2>3, <2>4, <2>5, ReadCounts
<1>6. CASE ReadShort(t)
  <2>1. Read(t, size = Unused) /\ (size = Unused) \in BOOLEAN
    BY <1>6 DEF ReadShort
  <2>2. SpecTypeOK'
    BY <1>1, <1>6, <2>1 DEF SpecTypeOK, Read, ReadShort, Set, Kinds, UserTypes, StorageClasses, Unused
  <2>3. (size = Unused) => Counted'
    BY <1>1, <1>6, <2>1, <1>2 DEF Counted, One, ReadShort, Set, SpecTypeOK,
       Kinds, Signs, UserTypes, StorageClasses, Qualifiers, Unused
  <2>4. ~(size = Unused) => \A c \in CTypes : ~Completes([counts EXCEPT ![t] = @ + 1], c)
    BY <1>1, <1>6, SecondOfOne DEF ReadShort, Signs
  <2>5. AtLeast'
    BY <1>1, <1>6, <1>2, <1>3, <2>1 DEF AtLeast, ReadShort, Set, SpecTypeOK, Kinds, Signs, UserTypes, Unused
  <2>6. QED
    BY <1>1, <2>1, <2>2, <2>3, <2>4, <2>5, ReadCounts
<1>7. CASE ReadLong(t)
  <2>1. Read(t, size \in {Unused, "long"}) /\ (size \in {Unused, "long"}) \in BOOLEAN
    BY <1>7 DEF ReadLong
  <2>2. SpecTypeOK'
    BY <1>1, <1>7, <2>1 DEF SpecTypeOK, Read, ReadLong, Set, Kinds, UserTypes, StorageClasses, Unused
  <2>3. (size \in {Unused, "long"}) => Counted'
    BY <1>1, <1>7, <2>1, <1>2 DEF Counted, One, ReadLong, Set, SpecTypeOK,
       Kinds, Signs, UserTypes, StorageClasses, Qualifiers, Unused
  <2>4. ~(size \in {Unused, "long"}) => \A c \in CTypes : ~Completes([counts EXCEPT ![t] = @ + 1], c)
    BY <1>1, <1>7, SecondOfOne DEF ReadLong, Signs
  <2>5. AtLeast'
    BY <1>1, <1>7, <1>2, <1>3, <2>1 DEF AtLeast, ReadLong, Set, SpecTypeOK, Kinds, Signs, UserTypes, Unused
  <2>6. QED
    BY <1>1, <2>1, <2>2, <2>3, <2>4, <2>5, ReadCounts
<1>8. CASE ReadUserType(t)
  <2>1. Read(t, usertype = Unused) /\ (usertype = Unused) \in BOOLEAN
    BY <1>8 DEF ReadUserType
  <2>2. SpecTypeOK'
    BY <1>1, <1>8, <2>1 DEF SpecTypeOK, Read, ReadUserType, Set, Kinds, UserTypes, StorageClasses, Unused
  <2>3. (usertype = Unused) => Counted'
    BY <1>1, <1>8, <2>1, <1>2 DEF Counted, One, ReadUserType, Set, SpecTypeOK,
       Kinds, Signs, UserTypes, StorageClasses, Qualifiers, Unused
  <2>4. ~(usertype = Unused) => \A c \in CTypes : ~Completes([counts EXCEPT ![t] = @ + 1], c)
    BY <1>1, <1>8, SecondOfOne DEF ReadUserType, Signs
  <2>5. AtLeast'
    BY <1>1, <1>8, <1>2, <1>3, <2>1 DEF AtLeast, ReadUserType, Set, SpecTypeOK, Kinds, Signs, UserTypes, Unused
  <2>6. QED
    BY <1>1, <2>1, <2>2, <2>3, <2>4, <2>5, ReadCounts
<1>9. CASE ReadStorageClass(t)
  <2>1. Read(t, sclass = Unused) /\ (sclass = Unused) \in BOOLEAN
    BY <1>9 DEF ReadStorageClass
  <2>2. SpecTypeOK'
    BY <1>1, <1>9, <2>1 DEF SpecTypeOK, Read, ReadStorageClass, Set, Kinds, UserTypes, StorageClasses, Unused
  <2>3. (sclass = Unused) => Counted'
    BY <1>1, <1>9, <2>1, <1>2 DEF Counted, One, ReadStorageClass, Set, SpecTypeOK,
       Kinds, Signs, UserTypes, StorageClasses, Qualifiers, Unused
  <2>4. ~(sclass = Unused) => \A c \in CTypes : ~Completes([counts EXCEPT ![t] = @ + 1], c)
    BY <1>1, <1>9, SecondOfOne DEF ReadStorageClass, Signs
  <2>5. AtLeast'
    BY <1>1, <1>9, <1>2, <1>3, <2>1 DEF AtLeast, ReadStorageClass, Set, SpecTypeOK, Kinds, Signs, UserTypes, Unused
  <2>6. QED
    BY <1>1, <2>1, <2>2, <2>3, <2>4, <2>5, ReadCounts
<1>10. CASE ReadQualifier(t)
  <2>1. Read(t, TRUE) /\ (TRUE) \in BOOLEAN
    BY <1>10 DEF ReadQualifier
  <2>2. SpecTypeOK'
    BY <1>1, <1>10, <2>1 DEF SpecTypeOK, Read, ReadQualifier, Set, Kinds, UserTypes, StorageClasses, Unused
  <2>3. (TRUE) => Counted'
    BY <1>1, <1>10, <2>1, <1>2 DEF Counted, One, ReadQualifier, Set, SpecTypeOK,
       Kinds, Signs, UserTypes, StorageClasses, Qualifiers, Unused
  <2>4. ~(TRUE) => \A c \in CTypes : ~Completes([counts EXCEPT ![t] = @ + 1], c)
    BY <1>1, <1>10, SecondOfOne DEF ReadQualifier, Signs
  <2>5. AtLeast'
    BY <1>1, <1>10, <1>2, <1>3, <2>1 DEF AtLeast, ReadQualifier, Set, SpecTypeOK, Kinds, Signs, UserTypes, Unused
  <2>6. QED
    BY <1>1, <2>1, <2>2, <2>3, <2>4, <2>5, ReadCounts
<1>11. QED
  BY <1>4, <1>5, <1>6, <1>7, <1>8, <1>9, <1>10 DEF ReadKeyword

\* The invariant when no specifier is read,
LEMMA SpecStays ==
  ASSUME IInv, UNCHANGED specVars
  PROVE  IInv'
BY DEF specVars, IInv, SpecTypeOK, Counted, RejectionIsRight, SpecShapes, NothingRead

\* when ParseDeclSpec is called,
LEMMA SpecBegins ==
  ASSUME BeginSpec
  PROVE  IInv' /\ status' # "rejected"
<1>1. SpecTypeOK'
  BY DEF BeginSpec, SpecTypeOK, NoKeywords
<1>2. (\A t \in Keywords : counts[t] = 0)'
  BY DEF BeginSpec, NoKeywords
<1>3. Counted'
  BY <1>2
     DEF BeginSpec, Counted, One, Unused, Keywords, TypeSpecifiers, Kinds, Signs, UserTypes, StorageClasses
<1>4. QED
  BY <1>1, <1>3 DEF BeginSpec, IInv, Clash, RejectionIsRight, Unused

\* and when it returns.
LEMMA SpecEnds ==
  ASSUME IInv, NEW reported \in BOOLEAN, EndSpec(reported)
  PROVE  IInv'
<1>1. SpecTypeOK'
  BY DEF EndSpec, IInv, SpecTypeOK
<1>2. Counted' /\ ~Clash(kind, size, sig, usertype)'
  BY DEF EndSpec, IInv, Counted
<1>3. RejectionIsRight'
  BY DEF EndSpec, RejectionIsRight, NothingRead
<1>4. QED
  BY <1>1, <1>2, <1>3 DEF IInv

\* What is accepted has the type of C.
LEMMA TypedWhenDone ==
  ASSUME IInv
  PROVE  TypeIsRight
<1> SUFFICES ASSUME status = "done", SpecShapes = {}
             PROVE  /\ OneStorageClass(counts)
                    /\ \E c \in CTypes : NamesType(counts, c) /\ DeclaredType = c.type
  BY DEF TypeIsRight
<1>1. SpecTypeOK /\ Counted /\ ~Clash(kind, size, sig, usertype)
  BY DEF IInv
<1>2. OneStorageClass(counts)
  <2>1. ASSUME NEW s \in StorageClasses, NEW t \in StorageClasses
        PROVE  counts[s] + (IF s = t THEN 0 ELSE counts[t]) <= 1
    <3>1. counts[s] = One(sclass = s) /\ counts[t] = One(sclass = t)
      BY <1>1 DEF Counted
    <3>2. QED
      BY <3>1 DEF One
  <2>2. QED
    BY <2>1 DEF OneStorageClass
<1>3. QED
  BY <1>1, <1>2, DoneIsTyped

-----------------------------------------------------------------------------
(* The theorems about ParseDeclSpec alone *)

\* The invariant holds in every state.
LEMMA Invariant == SpecifierSpec => []IInv
<1>1. StartSpec => IInv
  BY StartCounted DEF StartSpec
<1>2. IInv /\ [ReadNext]_specVars => IInv'
  <2> SUFFICES ASSUME IInv, [ReadNext]_specVars
               PROVE  IInv'
    OBVIOUS
  <2>1. CASE BeginSpec
    BY <2>1, SpecBegins
  <2>2. ASSUME NEW t \in Keywords, ReadKeyword(t)
        PROVE  IInv'
    BY <2>2, KeywordKeeps
  <2>3. ASSUME NEW reported \in BOOLEAN, EndSpec(reported)
        PROVE  IInv'
    BY <2>3, SpecEnds
  <2>4. CASE UNCHANGED specVars
    BY <2>4, SpecStays
  <2>5. QED
    BY <2>1, <2>2, <2>3, <2>4 DEF ReadNext
<1>3. QED
  BY <1>1, <1>2, PTL DEF SpecifierSpec

\* The enumerations always have their values, and each keyword is counted.
THEOREM SpecTypeCorrect == SpecifierSpec => []SpecTypeOK
<1>1. IInv => SpecTypeOK
  BY DEF IInv
<1>2. QED
  BY <1>1, Invariant, PTL

\* ParseDeclSpec gives every sequence of specifiers that it accepts the type that
\* C gives it, whatever the order, but for the shapes of ShapesOf.
THEOREM TypesAreRight == SpecifierSpec => []TypeIsRight
<1>1. IInv => TypeIsRight
  BY TypedWhenDone
<1>2. QED
  BY <1>1, Invariant, PTL

\* What ParseDeclSpec rejects is the beginning of no declaration of C.
THEOREM RejectionsAreRight == SpecifierSpec => []RejectionIsRight
<1>1. IInv => RejectionIsRight
  BY DEF IInv
<1>2. QED
  BY <1>1, Invariant, PTL

-----------------------------------------------------------------------------
(* The stacks of the lexer and of Sema, and the calls of the parser *)

\* Where a function reads ahead: it has called SaveState and will call RestoreState,
\* and keeps the current token in its local `begin`.
Begins == {"ReadAhead", "IsFuncDecl", "Skipped", "Reopen"}

\* Where a function has opened a scope that it will close.
Scopes == {"FuncDeclarator", "Members", "AddMembers"}

\* Where Sema's mode was set to Skip by this function: reading ahead, and in a
\* declarator of a typedef.
Skips(fr) == fr.at \in Begins \/ (fr.at = "AddDeclarator" /\ fr.typedef)

\* The places in the stack s of the frames with each of these marks.
Begun(s) == {i \in DOMAIN s : s[i].at \in Begins}
Skipping(s) == {i \in DOMAIN s : Skips(s[i])}
Opened(s) == {i \in DOMAIN s : s[i].at \in Scopes}

\* f lists the n members of I from the smallest to the largest.
Enumerates(f, n, I) ==
    /\ f \in [1 .. n -> I]
    /\ \A j, k \in 1 .. n : j < k => f[j] < f[k]
    /\ \A i \in I : \E k \in 1 .. n : f[k] = i

\* I has n members.
Numbered(n, I) == \E f \in [1 .. n -> I] : Enumerates(f, n, I)

-----------------------------------------------------------------------------
(* Lists of the members of a set *)

\* A list with a larger member at its end ...
LEMMA EnumPush ==
  ASSUME NEW n \in Nat, NEW I \in SUBSET Nat, NEW m \in Nat, NEW f, Enumerates(f, n, I),
         \A i \in I : i < m
  PROVE  Enumerates([k \in 1 .. n + 1 |-> IF k = n + 1 THEN m ELSE f[k]], n + 1, I \cup {m})
<1> DEFINE g == [k \in 1 .. n + 1 |-> IF k = n + 1 THEN m ELSE f[k]]
<1>1. f \in [1 .. n -> I]
  BY DEF Enumerates
<1>2. \A k \in 1 .. n + 1 : k \in 1 .. n \/ k = n + 1
  OBVIOUS
<1>3. g[n + 1] = m /\ \A k \in 1 .. n : g[k] = f[k]
  OBVIOUS
<1>4. g \in [1 .. n + 1 -> I \cup {m}]
  BY <1>1, <1>2
<1> HIDE DEF g
<1>5. ASSUME NEW j \in 1 .. n + 1, NEW k \in 1 .. n + 1, j < k
      PROVE  g[j] < g[k]
  <2>1. j \in 1 .. n
    BY <1>5
  <2>2. CASE k \in 1 .. n
    BY <2>1, <2>2, <1>3, <1>5 DEF Enumerates
  <2>3. CASE k = n + 1
    BY <2>1, <2>3, <1>1, <1>3
  <2>4. QED
    BY <1>2, <2>2, <2>3
<1>6. ASSUME NEW i \in I \cup {m}
      PROVE  \E k \in 1 .. n + 1 : g[k] = i
  <2>1. CASE i = m
    BY <2>1, <1>3
  <2>2. CASE i \in I
    <3>1. PICK k \in 1 .. n : f[k] = i
      BY <2>2 DEF Enumerates
    <3>2. k \in 1 .. n + 1 /\ g[k] = i
      BY <3>1, <1>3
    <3>3. QED
      BY <3>2
  <2>3. QED
    BY <2>1, <2>2
<1>7. Enumerates(g, n + 1, I \cup {m})
  BY <1>4, <1>5, <1>6 DEF Enumerates
<1>8. QED
  BY <1>7 DEF g

\* ... and without the largest, which is at its end.
LEMMA EnumPop ==
  ASSUME NEW n \in Nat, NEW I \in SUBSET Nat, NEW m \in I, NEW f, Enumerates(f, n, I),
         \A i \in I : i <= m
  PROVE  /\ n >= 1 /\ f[n] = m
         /\ Enumerates([k \in 1 .. n - 1 |-> f[k]], n - 1, I \ {m})
<1> DEFINE g == [k \in 1 .. n - 1 |-> f[k]]
<1>1. f \in [1 .. n -> I]
  BY DEF Enumerates
<1>2. PICK l \in 1 .. n : f[l] = m
  BY DEF Enumerates
<1>3. n >= 1 /\ n \in 1 .. n
  BY <1>2
<1>4. l = n
  <2>1. SUFFICES ASSUME l < n PROVE FALSE
    OBVIOUS
  <2>2. f[l] < f[n]
    BY <2>1, <1>3 DEF Enumerates
  <2>3. f[n] \in I
    BY <1>1, <1>3
  <2>4. f[n] <= m /\ f[n] \in Nat /\ m \in Nat
    BY <2>3
  <2>5. QED
    BY <2>2, <2>4, <1>2
<1>5. \A k \in 1 .. n - 1 : k \in 1 .. n /\ g[k] = f[k] /\ k < n
  OBVIOUS
<1>6. \A k \in 1 .. n - 1 : f[k] \in I /\ f[k] # m
  <2> SUFFICES ASSUME NEW k \in 1 .. n - 1
               PROVE  f[k] \in I /\ f[k] # m
    OBVIOUS
  <2>1. f[k] < f[n]
    BY <1>3, <1>5 DEF Enumerates
  <2>2. f[k] \in I
    BY <1>1, <1>5
  <2>3. QED
    BY <2>1, <2>2, <1>2, <1>4
<1>7. g \in [1 .. n - 1 -> I \ {m}]
  BY <1>6
<1> HIDE DEF g
<1>8. \A j, k \in 1 .. n - 1 : j < k => g[j] < g[k]
  BY <1>5 DEF Enumerates
<1>9. ASSUME NEW i \in I \ {m}
      PROVE  \E k \in 1 .. n - 1 : g[k] = i
  <2>1. PICK k \in 1 .. n : f[k] = i
    BY <1>9 DEF Enumerates
  <2>2. k # n
    BY <2>1, <1>2, <1>4
  <2>3. k \in 1 .. n - 1
    BY <2>2
  <2>4. QED
    BY <2>1, <2>3, <1>5
<1>10. Enumerates(g, n - 1, I \ {m})
  BY <1>7, <1>8, <1>9 DEF Enumerates
<1>11. QED
  BY <1>10, <1>2, <1>3, <1>4 DEF g

\* Nothing has no members,
LEMMA NumberNone ==
  ASSUME NEW n \in Nat, Numbered(n, {})
  PROVE  n = 0
<1>1. PICK f \in [1 .. n -> {}] : TRUE
  BY DEF Numbered
<1>2. SUFFICES ASSUME n # 0 PROVE FALSE
  OBVIOUS
<1>3. 1 \in 1 .. n
  BY <1>2
<1>4. f[1] \in {}
  BY <1>1, <1>3
<1>5. QED
  BY <1>4

\* a set with a larger member has one more
LEMMA NumberPush ==
  ASSUME NEW n \in Nat, NEW I \in SUBSET Nat, NEW m \in Nat, Numbered(n, I), \A i \in I : i < m
  PROVE  Numbered(n + 1, I \cup {m})
<1>1. PICK f \in [1 .. n -> I] : Enumerates(f, n, I)
  BY DEF Numbered
<1> DEFINE g == [k \in 1 .. n + 1 |-> IF k = n + 1 THEN m ELSE f[k]]
<1>2. Enumerates(g, n + 1, I \cup {m})
  BY <1>1, EnumPush
<1> HIDE DEF g
<1>3. g \in [1 .. n + 1 -> I \cup {m}]
  BY <1>2 DEF Enumerates
<1>4. QED
  BY <1>2, <1>3 DEF Numbered

\* and a set without its largest one less.
LEMMA NumberPop ==
  ASSUME NEW n \in Nat, NEW I \in SUBSET Nat, NEW m \in I, Numbered(n, I), \A i \in I : i <= m
  PROVE  n >= 1 /\ Numbered(n - 1, I \ {m})
<1>1. PICK f \in [1 .. n -> I] : Enumerates(f, n, I)
  BY DEF Numbered
<1> DEFINE g == [k \in 1 .. n - 1 |-> f[k]]
<1>2. n >= 1 /\ Enumerates(g, n - 1, I \ {m})
  BY <1>1, EnumPop
<1> HIDE DEF g
<1>3. g \in [1 .. n - 1 -> I \ {m}]
  BY <1>2 DEF Enumerates
<1>4. QED
  BY <1>2, <1>3 DEF Numbered

-----------------------------------------------------------------------------
(* Sequences *)

\* Frames and environments are of many shapes: s is a sequence of something.
IsSeq(s) == s \in Seq(Range(s))

\* Every sequence is.
LEMMA AnySeq ==
  ASSUME NEW S, NEW s \in Seq(S)
  PROVE  IsSeq(s)
<1>1. DOMAIN s = 1 .. Len(s) /\ Len(s) \in Nat
  OBVIOUS
<1>2. s = [i \in 1 .. Len(s) |-> s[i]]
  OBVIOUS
<1>3. \A i \in 1 .. Len(s) : s[i] \in Range(s)
  BY <1>1 DEF Range
<1>4. QED
  BY <1>1, <1>2, <1>3 DEF IsSeq

\* The length, the places and the last element of a sequence.
LEMMA SeqParts ==
  ASSUME NEW s, IsSeq(s)
  PROVE  /\ Len(s) \in Nat /\ DOMAIN s = 1 .. Len(s)
         /\ s # <<>> => Len(s) >= 1
         /\ s = <<>> => Len(s) = 0
         /\ Last(s) = s[Len(s)]
BY DEF IsSeq, Last

\* Frames in the place of the innermost one.
LEMMA Replaced ==
  ASSUME NEW s, NEW t, IsSeq(s), IsSeq(t), s # <<>>
  PROVE  /\ IsSeq(Front(s) \o t)
         /\ Len(Front(s) \o t) = Len(s) - 1 + Len(t)
         /\ \A i \in 1 .. Len(s) - 1 : (Front(s) \o t)[i] = s[i]
         /\ \A j \in 1 .. Len(t) : (Front(s) \o t)[Len(s) - 1 + j] = t[j]
         /\ \A i \in 1 .. Len(s) - 1 + Len(t) :
              i \in 1 .. Len(s) - 1 \/ \E j \in 1 .. Len(t) : i = Len(s) - 1 + j
<1> DEFINE S == Range(s) \cup Range(t)
<1>1. s \in Seq(S) /\ t \in Seq(S)
  <2>1. \A T : T \subseteq S => Seq(T) \subseteq Seq(S)
    OBVIOUS
  <2>2. QED
    BY <2>1 DEF IsSeq
<1> HIDE DEF S
<1>2. /\ Front(s) \in Seq(S)
      /\ Len(Front(s)) = Len(s) - 1
      /\ \A i \in 1 .. Len(s) - 1 : Front(s)[i] = s[i]
  BY <1>1, FrontType
<1>3. Front(s) \o t \in Seq(S)
  BY <1>1, <1>2, ConcatType
<1>4. Len(Front(s) \o t) = Len(s) - 1 + Len(t)
  BY <1>1, <1>2, ConcatProperties
<1>5. \A i \in 1 .. Len(s) - 1 : (Front(s) \o t)[i] = s[i]
  BY <1>1, <1>2
<1>6. ASSUME NEW j \in 1 .. Len(t)
      PROVE  (Front(s) \o t)[Len(s) - 1 + j] = t[j]
  <2>1. Len(s) - 1 \in Nat /\ Len(t) \in Nat
    BY <1>1, <1>2
  <2>2. Len(Front(s)) + j \in 1 .. Len(Front(s)) + Len(t)
    BY <2>1, <1>2
  <2>3. Len(Front(s)) + j > Len(Front(s)) /\ (Len(Front(s)) + j) - Len(Front(s)) = j
    BY <2>1, <1>2
  <2>4. (Front(s) \o t)[Len(Front(s)) + j] = t[(Len(Front(s)) + j) - Len(Front(s))]
    BY <1>1, <1>2, <2>2, <2>3, ConcatProperties
  <2>5. QED
    BY <2>3, <2>4, <1>2
<1>7. \A i \in 1 .. Len(s) - 1 + Len(t) :
        i \in 1 .. Len(s) - 1 \/ \E j \in 1 .. Len(t) : i = Len(s) - 1 + j
  <2> SUFFICES ASSUME NEW i \in 1 .. Len(s) - 1 + Len(t), i \notin 1 .. Len(s) - 1
               PROVE  \E j \in 1 .. Len(t) : i = Len(s) - 1 + j
    OBVIOUS
  <2>1. Len(s) \in Nat /\ Len(t) \in Nat
    BY <1>1
  <2>2. i - (Len(s) - 1) \in 1 .. Len(t) /\ i = Len(s) - 1 + (i - (Len(s) - 1))
    BY <2>1
  <2>3. QED
    BY <2>2
<1>8. QED
  BY <1>3, <1>4, <1>5, <1>6, <1>7, AnySeq

\* No frames in its place.
LEMMA Removed ==
  ASSUME NEW s, IsSeq(s), s # <<>>
  PROVE  Front(s) = Front(s) \o <<>> /\ IsSeq(<<>>)
<1>1. Front(s) \in Seq(Range(s))
  BY FrontType DEF IsSeq
<1>2. <<>> \in Seq({})
  OBVIOUS
<1>3. QED
  BY <1>1, <1>2, AnySeq, ConcatEmptySeq

\* The sequences that the actions write down.
LEMMA FewFrames ==
  ASSUME NEW a, NEW b, NEW c
  PROVE  /\ IsSeq(<<>>) /\ IsSeq(<<a>>) /\ IsSeq(<<a, b>>) /\ IsSeq(<<a, b, c>>)
         /\ <<a>>[1] = a /\ <<a, b>>[1] = a /\ <<a, b>>[2] = b
         /\ <<a, b, c>>[1] = a /\ <<a, b, c>>[2] = b /\ <<a, b, c>>[3] = c
         /\ DOMAIN <<>> = {} /\ DOMAIN <<a>> = {1} /\ DOMAIN <<a, b>> = {1, 2}
         /\ DOMAIN <<a, b, c>> = {1, 2, 3} /\ <<a, b, c>> # <<>>
         /\ <<a>> \o <<>> = <<a>> /\ <<a>> \o <<b>> = <<a, b>>
<1>1. <<>> \in Seq({a}) /\ <<a>> \in Seq({a}) /\ <<a, b>> \in Seq({a, b}) /\ <<a, b, c>> \in Seq({a, b, c})
  OBVIOUS
<1>2. IsSeq(<<>>) /\ IsSeq(<<a>>) /\ IsSeq(<<a, b>>) /\ IsSeq(<<a, b, c>>)
  BY <1>1, AnySeq
<1>3. /\ DOMAIN <<>> = {} /\ DOMAIN <<a>> = {1} /\ DOMAIN <<a, b>> = {1, 2}
      /\ DOMAIN <<a, b, c>> = {1, 2, 3} /\ <<a, b, c>> # <<>>
  OBVIOUS
<1>4. <<a>> \o <<>> = <<a>>
  BY <1>1, ConcatEmptySeq
<1>5. <<a>> \o <<b>> = <<a, b>>
  <2> DEFINE S == {a, b}
             s == <<a>>
             t == <<b>>
             u == <<a, b>>
  <2>1. /\ s \in Seq(S) /\ Len(s) = 1 /\ s[1] = a
        /\ t \in Seq(S) /\ Len(t) = 1 /\ t[1] = b
        /\ u \in Seq(S) /\ Len(u) = 2 /\ u[1] = a /\ u[2] = b
    OBVIOUS
  <2> HIDE DEF S, s, t, u
  <2>2. s \o t \in Seq(S)
    BY <2>1, ConcatType
  <2>3. Len(s \o t) = 2 /\ (s \o t)[1] = a /\ (s \o t)[2] = b
    BY <2>1, ConcatProperties
  <2>4. s \o t = u
    <3>1. \A i \in 1 .. 2 : i = 1 \/ i = 2
      OBVIOUS
    <3>2. \A i \in 1 .. Len(s \o t) : (s \o t)[i] = u[i]
      BY <2>1, <2>3, <3>1
    <3>3. QED
      BY <2>1, <2>2, <2>3, <3>2, SeqEqual
  <2>5. QED
    BY <2>4 DEF s, t, u
<1>6. QED
  BY <1>2, <1>3, <1>4, <1>5

-----------------------------------------------------------------------------
(* Frames *)

\* The enumerations of the ParseDeclSpec that reads a record count its keywords.
Kept(l) ==
    /\ l[1] \in Kinds \cup {Unused}
    /\ l[2] \in {"short", "long", "llong", Unused}
    /\ l[3] \in Signs \cup {Unused}
    /\ l[4] \in StorageClasses \cup {Unused}
    /\ l[5] \in [Keywords -> Nat]
    /\ \A t \in Kinds : l[5][t] = One(l[1] = t)
    /\ \A t \in Signs : l[5][t] = One(l[3] = t)
    /\ \A t \in UserTypes : l[5][t] = 0
    /\ \A t \in StorageClasses : l[5][t] = One(l[4] = t)
    /\ l[5]["short"] = One(l[2] = "short")
    /\ l[5]["long"] = IF l[2] = "llong" THEN 2 ELSE One(l[2] = "long")
    /\ ~Clash(l[1], l[2], l[3], Unused)

\* The locals that a frame has at each place.
FrameOK(fr) ==
    /\ "at" \in DOMAIN fr
    /\ fr.at \in Begins => "begin" \in DOMAIN fr /\ fr.begin \in Nat
    /\ fr.at \in {"Declarators", "AddDeclarator"} => "typedef" \in DOMAIN fr
    /\ fr.at \in {"Record", "Members", "AddMembers"} => "locals" \in DOMAIN fr /\ Kept(fr.locals)

\* The stack of calls: ParseProgram is the outermost, and nowhere else.
Calls(s) ==
    /\ IsSeq(s)
    /\ s # <<>>
    /\ \A i \in DOMAIN s : FrameOK(s[i]) /\ (s[i].at = "ParseProgram" <=> i = 1)

\* The saved places are those of the frames that read ahead, in the same order:
\* each is behind the token that the frame keeps.
Remembers(places, s) ==
    \E f \in [1 .. Len(places) -> Begun(s)] :
        /\ Enumerates(f, Len(places), Begun(s))
        /\ \A k \in 1 .. Len(places) : places[k] = After(s[f[k]].begin)

\* The frames with a mark, after others took the place of the innermost one.
Shifted(I, n, J) == (I \ {n}) \cup {n - 1 + j : j \in J}

\* c is s, of length n, with t of length k in the place of its last element.
Placed(c, s, t, n, k) ==
    /\ n \in Nat /\ k \in Nat /\ n >= 1
    /\ DOMAIN s = 1 .. n /\ DOMAIN t = 1 .. k /\ DOMAIN c = 1 .. n - 1 + k
    /\ \A i \in 1 .. n - 1 : c[i] = s[i]
    /\ \A j \in 1 .. k : c[n - 1 + j] = t[j]
    /\ \A i \in 1 .. n - 1 + k : i \in 1 .. n - 1 \/ \E j \in 1 .. k : i = n - 1 + j

\* Each mark of c is one of s below its last frame, or one of t.
LEMMA MarksOf ==
  ASSUME NEW s, NEW t, NEW c, NEW n, NEW k, Placed(c, s, t, n, k)
  PROVE  /\ Begun(c) = Shifted(Begun(s), n, Begun(t))
         /\ Skipping(c) = Shifted(Skipping(s), n, Skipping(t))
         /\ Opened(c) = Shifted(Opened(s), n, Opened(t))
<1>1. /\ \A i \in 1 .. n - 1 : c[i] = s[i]
      /\ \A j \in 1 .. k : c[n - 1 + j] = t[j]
      /\ \A i \in DOMAIN c : i \in 1 .. n - 1 \/ \E j \in 1 .. k : i = n - 1 + j
  BY DEF Placed
<1>2. DOMAIN t = 1 .. k
  BY DEF Placed
<1>3. /\ \A i \in 1 .. n - 1 : i \in DOMAIN c /\ i \in DOMAIN s /\ i # n
      /\ \A j \in 1 .. k : n - 1 + j \in DOMAIN c /\ j \in DOMAIN t
      /\ \A i \in DOMAIN s : i # n => i \in 1 .. n - 1
  BY DEF Placed
<1>4. Begun(c) = Shifted(Begun(s), n, Begun(t))
  <2>1. ASSUME NEW i \in Begun(c)
        PROVE  i \in Shifted(Begun(s), n, Begun(t))
    <3>1. CASE i \in 1 .. n - 1
      BY <2>1, <3>1, <1>1, <1>3 DEF Begun, Shifted
    <3>2. CASE \E j \in 1 .. k : i = n - 1 + j
      BY <2>1, <3>2, <1>1, <1>3 DEF Begun, Shifted
    <3>3. QED
      BY <2>1, <3>1, <3>2, <1>1 DEF Begun
  <2>2. ASSUME NEW i \in Shifted(Begun(s), n, Begun(t))
        PROVE  i \in Begun(c)
    <3>1. CASE i \in Begun(s) \ {n}
      BY <3>1, <1>1, <1>3 DEF Begun
    <3>2. CASE i \in {n - 1 + j : j \in Begun(t)}
      <4>1. PICK j \in Begun(t) : i = n - 1 + j
        BY <3>2
      <4>2. j \in 1 .. k /\ t[j].at \in Begins
        BY <1>2 DEF Begun
      <4>3. QED
        BY <4>1, <4>2, <1>1, <1>3 DEF Begun
    <3>3. QED
      BY <2>2, <3>1, <3>2 DEF Shifted
  <2>3. QED
    BY <2>1, <2>2
<1>5. Skipping(c) = Shifted(Skipping(s), n, Skipping(t))
  <2>1. ASSUME NEW i \in Skipping(c)
        PROVE  i \in Shifted(Skipping(s), n, Skipping(t))
    <3>1. CASE i \in 1 .. n - 1
      BY <2>1, <3>1, <1>1, <1>3 DEF Skipping, Shifted
    <3>2. CASE \E j \in 1 .. k : i = n - 1 + j
      BY <2>1, <3>2, <1>1, <1>3 DEF Skipping, Shifted
    <3>3. QED
      BY <2>1, <3>1, <3>2, <1>1 DEF Skipping
  <2>2. ASSUME NEW i \in Shifted(Skipping(s), n, Skipping(t))
        PROVE  i \in Skipping(c)
    <3>1. CASE i \in Skipping(s) \ {n}
      BY <3>1, <1>1, <1>3 DEF Skipping
    <3>2. CASE i \in {n - 1 + j : j \in Skipping(t)}
      <4>1. PICK j \in Skipping(t) : i = n - 1 + j
        BY <3>2
      <4>2. j \in 1 .. k /\ Skips(t[j])
        BY <1>2 DEF Skipping
      <4>3. QED
        BY <4>1, <4>2, <1>1, <1>3 DEF Skipping
    <3>3. QED
      BY <2>2, <3>1, <3>2 DEF Shifted
  <2>3. QED
    BY <2>1, <2>2
<1>6. Opened(c) = Shifted(Opened(s), n, Opened(t))
  <2>1. ASSUME NEW i \in Opened(c)
        PROVE  i \in Shifted(Opened(s), n, Opened(t))
    <3>1. CASE i \in 1 .. n - 1
      BY <2>1, <3>1, <1>1, <1>3 DEF Opened, Shifted
    <3>2. CASE \E j \in 1 .. k : i = n - 1 + j
      BY <2>1, <3>2, <1>1, <1>3 DEF Opened, Shifted
    <3>3. QED
      BY <2>1, <3>1, <3>2, <1>1 DEF Opened
  <2>2. ASSUME NEW i \in Shifted(Opened(s), n, Opened(t))
        PROVE  i \in Opened(c)
    <3>1. CASE i \in Opened(s) \ {n}
      BY <3>1, <1>1, <1>3 DEF Opened
    <3>2. CASE i \in {n - 1 + j : j \in Opened(t)}
      <4>1. PICK j \in Opened(t) : i = n - 1 + j
        BY <3>2
      <4>2. j \in 1 .. k /\ t[j].at \in Scopes
        BY <1>2 DEF Opened
      <4>3. QED
        BY <4>1, <4>2, <1>1, <1>3 DEF Opened
    <3>3. QED
      BY <2>2, <3>1, <3>2 DEF Shifted
  <2>3. QED
    BY <2>1, <2>2
<1>7. QED
  BY <1>4, <1>5, <1>6

\* c is s with the frames t in the place of its last one.
Replaces(c, s, t) == c = Front(s) \o t

\* Then it is one of that length, with these elements,
LEMMA ReplacedBy ==
  ASSUME NEW s, NEW t, NEW c, IsSeq(s), IsSeq(t), s # <<>>, Replaces(c, s, t)
  PROVE  IsSeq(c) /\ Len(c) = Len(s) - 1 + Len(t) /\ Placed(c, s, t, Len(s), Len(t))
<1> DEFINE d == Front(s) \o t
<1>1. /\ IsSeq(d)
      /\ Len(d) = Len(s) - 1 + Len(t)
      /\ \A i \in 1 .. Len(s) - 1 : d[i] = s[i]
      /\ \A j \in 1 .. Len(t) : d[Len(s) - 1 + j] = t[j]
      /\ \A i \in 1 .. Len(s) - 1 + Len(t) :
           i \in 1 .. Len(s) - 1 \/ \E j \in 1 .. Len(t) : i = Len(s) - 1 + j
  BY Replaced
<1>2. c = d
  BY DEF Replaces
<1> HIDE DEF d
<1>3. /\ Len(s) \in Nat /\ Len(t) \in Nat /\ Len(s) >= 1
      /\ DOMAIN s = 1 .. Len(s) /\ DOMAIN t = 1 .. Len(t) /\ DOMAIN c = 1 .. Len(c)
  BY <1>1, <1>2, SeqParts
<1>4. QED
  BY <1>1, <1>2, <1>3 DEF Placed

\* and with these marks.
LEMMA Marks ==
  ASSUME NEW s, NEW t, NEW c, IsSeq(s), IsSeq(t), s # <<>>, Replaces(c, s, t)
  PROVE  /\ Begun(c) = Shifted(Begun(s), Len(s), Begun(t))
         /\ Skipping(c) = Shifted(Skipping(s), Len(s), Skipping(t))
         /\ Opened(c) = Shifted(Opened(s), Len(s), Opened(t))
<1>1. Placed(c, s, t, Len(s), Len(t))
  BY ReplacedBy
<1>2. QED
  BY <1>1, MarksOf

-----------------------------------------------------------------------------
(* The marks of a stack *)

\* The innermost frame of a stack, and its marks.
LEMMA FramePlaces ==
  ASSUME NEW s, Calls(s)
  PROVE  /\ IsSeq(s) /\ s # <<>> /\ Len(s) \in Nat /\ Len(s) >= 1 /\ Len(s) \in DOMAIN s
         /\ DOMAIN s = 1 .. Len(s) /\ Last(s) = s[Len(s)] /\ FrameOK(Last(s))
         /\ Begun(s) \in SUBSET (1 .. Len(s)) /\ Skipping(s) \in SUBSET (1 .. Len(s))
         /\ Opened(s) \in SUBSET (1 .. Len(s))
         /\ Len(s) \in Begun(s) <=> Last(s).at \in Begins
         /\ Len(s) \in Skipping(s) <=> Skips(Last(s))
         /\ Len(s) \in Opened(s) <=> Last(s).at \in Scopes
         /\ Last(s).at = "ParseProgram" <=> Len(s) = 1
<1>1. IsSeq(s) /\ s # <<>> /\ Len(s) \in Nat /\ Len(s) >= 1 /\ DOMAIN s = 1 .. Len(s) /\ Last(s) = s[Len(s)]
  BY SeqParts DEF Calls
<1>2. Len(s) \in DOMAIN s
  BY <1>1
<1>3. FrameOK(s[Len(s)]) /\ (s[Len(s)].at = "ParseProgram" <=> Len(s) = 1)
  BY <1>2 DEF Calls
<1>4. /\ Begun(s) \in SUBSET (1 .. Len(s)) /\ Skipping(s) \in SUBSET (1 .. Len(s))
      /\ Opened(s) \in SUBSET (1 .. Len(s))
  BY <1>1 DEF Begun, Skipping, Opened
<1>5. /\ Len(s) \in Begun(s) <=> s[Len(s)].at \in Begins
      /\ Len(s) \in Skipping(s) <=> Skips(s[Len(s)])
      /\ Len(s) \in Opened(s) <=> s[Len(s)].at \in Scopes
  BY <1>2, Zenon DEF Begun, Skipping, Opened
<1>6. QED
  BY <1>1, <1>2, <1>3, <1>4, <1>5, Zenon

\* The marks after the innermost frame goes on with its mark, or without one as before,
LEMMA ShiftSame ==
  ASSUME NEW n \in Nat, NEW I \in SUBSET (1 .. n), NEW J,
         (n \notin I /\ J = {}) \/ (n \in I /\ J = {1})
  PROVE  Shifted(I, n, J) = I
<1>1. CASE n \notin I /\ J = {}
  <2>1. {n - 1 + j : j \in {}} = {}
    OBVIOUS
  <2>2. I \ {n} = I
    BY <1>1
  <2>3. QED
    BY <1>1, <2>1, <2>2 DEF Shifted
<1>2. CASE n \in I /\ J = {1}
  <2>1. {n - 1 + j : j \in {1}} = {n}
    OBVIOUS
  <2>2. (I \ {n}) \cup {n} = I
    BY <1>2
  <2>3. QED
    BY <1>2, <2>1, <2>2 DEF Shifted
<1>3. QED
  BY <1>1, <1>2

\* when one of the new frames has the only new mark
LEMMA ShiftIn ==
  ASSUME NEW n \in Nat, NEW I \in SUBSET (1 .. n), NEW j \in Nat, n \notin I, n >= 1, j >= 1
  PROVE  /\ Shifted(I, n, {j}) = I \cup {n - 1 + j}
         /\ n - 1 + j \in Nat /\ I \in SUBSET Nat /\ \A i \in I : i < n - 1 + j
<1>1. {n - 1 + k : k \in {j}} = {n - 1 + j}
  OBVIOUS
<1>2. I \ {n} = I
  OBVIOUS
<1>3. Shifted(I, n, {j}) = I \cup {n - 1 + j}
  BY <1>1, <1>2 DEF Shifted
<1>4. n - 1 + j \in Nat /\ I \in SUBSET Nat
  OBVIOUS
<1>5. \A i \in I : i < n - 1 + j
  <2> SUFFICES ASSUME NEW i \in I PROVE i < n - 1 + j
    OBVIOUS
  <2>1. i \in 1 .. n /\ i # n
    OBVIOUS
  <2>2. QED
    BY <2>1
<1>6. QED
  BY <1>3, <1>4, <1>5

\* and when the innermost frame had one and no new frame has.
LEMMA ShiftOut ==
  ASSUME NEW n \in Nat, NEW I \in SUBSET (1 .. n), n \in I
  PROVE  /\ Shifted(I, n, {}) = I \ {n}
         /\ I \in SUBSET Nat /\ \A i \in I : i <= n
<1>1. {n - 1 + j : j \in {}} = {}
  OBVIOUS
<1>2. Shifted(I, n, {}) = I \ {n}
  BY <1>1 DEF Shifted
<1>3. QED
  BY <1>2

\* New frames leave ParseProgram the outermost.
LEMMA CallsKeep ==
  ASSUME NEW s, NEW t, NEW c, Calls(s), IsSeq(t), Replaces(c, s, t),
         \A j \in DOMAIN t : FrameOK(t[j]),
         \/ Last(s).at # "ParseProgram" /\ \A j \in DOMAIN t : t[j].at # "ParseProgram"
         \/ /\ Last(s).at = "ParseProgram" /\ t # <<>>
            /\ \A j \in DOMAIN t : t[j].at = "ParseProgram" <=> j = 1
  PROVE  Calls(c)
<1>1. /\ IsSeq(s) /\ s # <<>> /\ Len(s) \in Nat /\ Len(s) >= 1 /\ DOMAIN s = 1 .. Len(s)
      /\ Last(s).at = "ParseProgram" <=> Len(s) = 1
  BY FramePlaces
<1>2. IsSeq(c) /\ Len(c) = Len(s) - 1 + Len(t) /\ Placed(c, s, t, Len(s), Len(t))
  BY <1>1, ReplacedBy
<1>3. /\ Len(t) \in Nat /\ DOMAIN t = 1 .. Len(t) /\ (t # <<>> => Len(t) >= 1)
      /\ Len(c) \in Nat /\ DOMAIN c = 1 .. Len(c) /\ (c = <<>> => Len(c) = 0)
  BY <1>2, SeqParts
<1>4. c # <<>>
  BY <1>1, <1>2, <1>3
<1>5. ASSUME NEW i \in DOMAIN c
      PROVE  FrameOK(c[i]) /\ (c[i].at = "ParseProgram" <=> i = 1)
  <2>1. i \in 1 .. Len(s) - 1 \/ \E j \in 1 .. Len(t) : i = Len(s) - 1 + j
    BY <1>2 DEF Placed
  <2>2. CASE i \in 1 .. Len(s) - 1
    <3>1. c[i] = s[i]
      BY <2>2, <1>2 DEF Placed
    <3>2. i \in DOMAIN s
      BY <2>2, <1>1
    <3>3. FrameOK(s[i]) /\ (s[i].at = "ParseProgram" <=> i = 1)
      BY <3>2 DEF Calls
    <3>4. QED
      BY <3>1, <3>3
  <2>3. ASSUME NEW j \in 1 .. Len(t), i = Len(s) - 1 + j
        PROVE  FrameOK(c[i]) /\ (c[i].at = "ParseProgram" <=> i = 1)
    <3>1. c[i] = t[j] /\ j \in DOMAIN t
      BY <2>3, <1>2, <1>3 DEF Placed
    <3>2. t[j].at = "ParseProgram" <=> i = 1
      <4>1. CASE Last(s).at # "ParseProgram"
        BY <4>1, <3>1, <2>3, <1>1
      <4>2. CASE Last(s).at = "ParseProgram"
        <5>1. Len(s) = 1 /\ (t[j].at = "ParseProgram" <=> j = 1)
          BY <4>2, <3>1, <1>1
        <5>2. i = j
          BY <5>1, <2>3, <1>3
        <5>3. QED
          BY <5>1, <5>2
      <4>3. QED
        BY <4>1, <4>2
    <3>3. QED
      BY <3>1, <3>2
  <2>4. QED
    BY <2>1, <2>2, <2>3
<1>6. QED
  BY <1>2, <1>4, <1>5 DEF Calls

\* The same places are remembered by the same frames.
LEMMA RemembersSame ==
  ASSUME NEW p, NEW s, NEW c, Remembers(p, s), Begun(c) = Begun(s),
         \A i \in Begun(s) : c[i].begin = s[i].begin
  PROVE  Remembers(p, c)
<1>1. PICK f \in [1 .. Len(p) -> Begun(s)] :
        /\ Enumerates(f, Len(p), Begun(s))
        /\ \A k \in 1 .. Len(p) : p[k] = After(s[f[k]].begin)
  BY DEF Remembers
<1>2. \A k \in 1 .. Len(p) : p[k] = After(c[f[k]].begin)
  BY <1>1
<1>3. QED
  BY <1>1, <1>2 DEF Remembers

\* A frame more with a place more ...
LEMMA RemembersIn ==
  ASSUME NEW p \in Seq(Nat), NEW s, NEW c, NEW m \in Nat, NEW x \in Nat, Remembers(p, s),
         Begun(s) \in SUBSET Nat, \A i \in Begun(s) : i < m,
         Begun(c) = Begun(s) \cup {m},
         \A i \in Begun(s) : c[i].begin = s[i].begin,
         x = After(c[m].begin)
  PROVE  Remembers(Append(p, x), c)
<1>1. PICK f \in [1 .. Len(p) -> Begun(s)] :
        /\ Enumerates(f, Len(p), Begun(s))
        /\ \A k \in 1 .. Len(p) : p[k] = After(s[f[k]].begin)
  BY DEF Remembers
<1>2. PICK q : q = Append(p, x)
  OBVIOUS
<1>3. /\ Len(p) \in Nat /\ Len(q) = Len(p) + 1 /\ q[Len(p) + 1] = x
      /\ \A k \in 1 .. Len(p) : q[k] = p[k]
  BY <1>2, AppendParts
<1>4. PICK n \in Nat : n = Len(p)
  BY <1>3
<1> DEFINE g == [k \in 1 .. n + 1 |-> IF k = n + 1 THEN m ELSE f[k]]
<1>5. Enumerates(g, n + 1, Begun(c))
  <2>1. Enumerates(f, n, Begun(s))
    BY <1>1, <1>4
  <2>2. Enumerates(g, n + 1, Begun(s) \cup {m})
    BY <2>1, EnumPush
  <2> HIDE DEF g
  <2>3. QED
    BY <2>2
<1>6. g[n + 1] = m /\ \A k \in 1 .. n : g[k] = f[k]
  BY <1>4
<1> HIDE DEF g
<1>7. g \in [1 .. n + 1 -> Begun(c)]
  BY <1>5 DEF Enumerates
<1>8. ASSUME NEW k \in 1 .. n + 1
      PROVE  q[k] = After(c[g[k]].begin)
  <2>1. CASE k = n + 1
    BY <2>1, <1>3, <1>4, <1>6
  <2>2. CASE k \in 1 .. n
    <3>1. g[k] = f[k] /\ f[k] \in Begun(s) /\ q[k] = p[k] /\ p[k] = After(s[f[k]].begin)
      BY <2>2, <1>1, <1>3, <1>4, <1>6
    <3>2. c[f[k]].begin = s[f[k]].begin
      BY <3>1
    <3>3. QED
      BY <3>1, <3>2
  <2>3. QED
    BY <2>1, <2>2
<1>9. Remembers(q, c)
  BY ZenonT(60), <1>3, <1>4, <1>5, <1>7, <1>8 DEF Remembers
<1>10. QED
  BY <1>2, <1>9

\* ... and one less: the last place is the one of the innermost.
LEMMA RemembersOut ==
  ASSUME NEW p \in Seq(Nat), NEW s, NEW c, NEW m \in Nat, Remembers(p, s),
         Begun(s) \in SUBSET Nat, m \in Begun(s), \A i \in Begun(s) : i <= m,
         Begun(c) = Begun(s) \ {m},
         \A i \in Begun(c) : c[i].begin = s[i].begin
  PROVE  p # <<>> /\ Last(p) = After(s[m].begin) /\ Remembers(Front(p), c)
<1>1. PICK f \in [1 .. Len(p) -> Begun(s)] :
        /\ Enumerates(f, Len(p), Begun(s))
        /\ \A k \in 1 .. Len(p) : p[k] = After(s[f[k]].begin)
  BY DEF Remembers
<1>2. PICK n \in Nat : n = Len(p)
  OBVIOUS
<1> DEFINE g == [k \in 1 .. n - 1 |-> f[k]]
<1>3. n >= 1 /\ f[n] = m /\ Enumerates(g, n - 1, Begun(c))
  <2>1. Enumerates(f, n, Begun(s))
    BY <1>1, <1>2
  <2>2. n >= 1 /\ f[n] = m /\ Enumerates(g, n - 1, Begun(s) \ {m})
    BY ZenonT(60), <2>1, EnumPop
  <2> HIDE DEF g
  <2>3. QED
    BY <2>2
<1>4. \A k \in 1 .. n - 1 : g[k] = f[k]
  OBVIOUS
<1> HIDE DEF g
<1>5. p # <<>> /\ Last(p) = p[n] /\ p[n] = After(s[m].begin)
  <2>1. p # <<>>
    BY <1>2, <1>3
  <2>2. Last(p) = p[n]
    BY <2>1, <1>2, LastType
  <2>3. n \in 1 .. n
    BY <1>3
  <2>4. QED
    BY <2>1, <2>2, <2>3, <1>1, <1>2, <1>3
<1>6. PICK q : q = Front(p)
  OBVIOUS
<1>7. Len(q) = n - 1 /\ \A k \in 1 .. n - 1 : q[k] = p[k]
  BY <1>2, <1>5, <1>6, FrontType
<1>8. g \in [1 .. n - 1 -> Begun(c)]
  BY <1>3 DEF Enumerates
<1>9. ASSUME NEW k \in 1 .. n - 1
      PROVE  q[k] = After(c[g[k]].begin)
  <2>1. k \in 1 .. n /\ g[k] \in Begun(c) /\ g[k] = f[k] /\ q[k] = p[k]
    BY <1>4, <1>7, <1>8
  <2>2. p[k] = After(s[f[k]].begin)
    BY <2>1, <1>1, <1>2
  <2>3. c[f[k]].begin = s[f[k]].begin
    BY <2>1
  <2>4. QED
    BY <2>1, <2>2, <2>3
<1>10. Remembers(q, c)
  BY ZenonT(60), <1>3, <1>7, <1>8, <1>9 DEF Remembers
<1>11. QED
  BY <1>5, <1>6, <1>10

-----------------------------------------------------------------------------
(* Stacks that are balanced *)

\* The stack s with the places p, and with m modes and e scopes over the first ones.
Balanced(s, p, m, e) ==
    /\ Calls(s)
    /\ p \in Seq(Nat) /\ Remembers(p, s)
    /\ m \in Nat /\ Numbered(m, Skipping(s))
    /\ e \in Nat /\ Numbered(e, Opened(s))

\* The frames t can take the place of the innermost one of s.
Fits(t, s) ==
    /\ IsSeq(t)
    /\ \A j \in DOMAIN t : FrameOK(t[j])
    /\ \/ Last(s).at # "ParseProgram" /\ \A j \in DOMAIN t : t[j].at # "ParseProgram"
       \/ /\ Last(s).at = "ParseProgram" /\ t # <<>>
          /\ \A j \in DOMAIN t : t[j].at = "ParseProgram" <=> j = 1

\* With the innermost frame's mark, if it has one, on the first of the new ones.
Same(I, n, J) == (n \notin I /\ J = {}) \/ (n \in I /\ J = {1})

\* c is s after the frames t took the place of its last one.
Moved(c, s, t) ==
    /\ Calls(c)
    /\ Begun(c) = Shifted(Begun(s), Len(s), Begun(t))
    /\ Skipping(c) = Shifted(Skipping(s), Len(s), Skipping(t))
    /\ Opened(c) = Shifted(Opened(s), Len(s), Opened(t))
    /\ \A i \in 1 .. Len(s) - 1 : c[i] = s[i]
    /\ \A j \in DOMAIN t : c[Len(s) - 1 + j] = t[j]

\* The stack and its marks after frames that fit took the place of the innermost.
LEMMA FitsCalls ==
  ASSUME NEW s, NEW t, NEW c, Calls(s), Fits(t, s), Replaces(c, s, t)
  PROVE  /\ Moved(c, s, t)
         /\ Calls(c)
         /\ Begun(c) = Shifted(Begun(s), Len(s), Begun(t))
         /\ Skipping(c) = Shifted(Skipping(s), Len(s), Skipping(t))
         /\ Opened(c) = Shifted(Opened(s), Len(s), Opened(t))
         /\ \A i \in 1 .. Len(s) - 1 : c[i] = s[i]
         /\ \A j \in DOMAIN t : c[Len(s) - 1 + j] = t[j]
<1>1. IsSeq(s) /\ s # <<>>
  BY DEF Calls
<1>2. /\ IsSeq(t)
      /\ \A j \in DOMAIN t : FrameOK(t[j])
      /\ \/ Last(s).at # "ParseProgram" /\ \A j \in DOMAIN t : t[j].at # "ParseProgram"
         \/ /\ Last(s).at = "ParseProgram" /\ t # <<>>
            /\ \A j \in DOMAIN t : t[j].at = "ParseProgram" <=> j = 1
  BY DEF Fits
<1>3. Calls(c)
  BY <1>2, CallsKeep
<1>4. Placed(c, s, t, Len(s), Len(t))
  BY <1>1, <1>2, ReplacedBy
<1>5. /\ \A i \in 1 .. Len(s) - 1 : c[i] = s[i]
      /\ \A j \in DOMAIN t : c[Len(s) - 1 + j] = t[j]
  BY <1>4 DEF Placed
<1>6. QED
  BY <1>1, <1>2, <1>3, <1>5, Marks DEF Moved

\* Marks that stay as they were.
LEMMA ShiftedSame ==
  ASSUME NEW s, NEW I, NEW J, Calls(s), I \in SUBSET (1 .. Len(s)), Same(I, Len(s), J)
  PROVE  Shifted(I, Len(s), J) = I
<1>1. Len(s) \in Nat
  BY FramePlaces
<1>2. QED
  BY <1>1, ShiftSame DEF Same

\* The places of frames that stay.
LEMMA PlacesStay ==
  ASSUME NEW s, NEW t, NEW c, NEW p, Calls(s), Fits(t, s), Replaces(c, s, t), Remembers(p, s),
         Same(Begun(s), Len(s), Begun(t)),
         Last(s).at \in Begins => t[1].begin = Last(s).begin
  PROVE  Remembers(p, c)
<1>1. /\ Len(s) \in Nat /\ Len(s) >= 1 /\ Last(s) = s[Len(s)]
      /\ Begun(s) \in SUBSET (1 .. Len(s))
      /\ Len(s) \in Begun(s) <=> Last(s).at \in Begins
  BY FramePlaces
<1>2. /\ Begun(c) = Shifted(Begun(s), Len(s), Begun(t))
      /\ \A i \in 1 .. Len(s) - 1 : c[i] = s[i]
      /\ \A j \in DOMAIN t : c[Len(s) - 1 + j] = t[j]
  BY FitsCalls
<1>3. Begun(c) = Begun(s)
  BY <1>1, <1>2, ShiftedSame
<1>4. ASSUME NEW i \in Begun(s)
      PROVE  c[i].begin = s[i].begin
  <2>1. CASE i = Len(s)
    <3>1. Begun(t) = {1}
      BY <2>1 DEF Same
    <3>2. 1 \in DOMAIN t
      BY <3>1 DEF Begun
    <3>3. c[Len(s) - 1 + 1] = t[1]
      BY <3>2, <1>2
    <3>4. Len(s) - 1 + 1 = Len(s)
      BY <1>1
    <3>5. QED
      BY <2>1, <3>3, <3>4, <1>1
  <2>2. CASE i # Len(s)
    <3>1. i \in 1 .. Len(s) - 1
      BY <2>2, <1>1
    <3>2. QED
      BY <3>1, <1>2
  <2>3. QED
    BY <2>1, <2>2
<1>5. QED
  BY <1>3, <1>4, RemembersSame

\* A frame that goes on keeps its marks ...
LEMMA GoesOn ==
  ASSUME NEW s, NEW t, NEW c, NEW p, NEW m, NEW e,
         Balanced(s, p, m, e), Fits(t, s), Replaces(c, s, t),
         Same(Begun(s), Len(s), Begun(t)),
         Last(s).at \in Begins => t[1].begin = Last(s).begin,
         Same(Skipping(s), Len(s), Skipping(t)),
         Same(Opened(s), Len(s), Opened(t))
  PROVE  Balanced(c, p, m, e)
<1>1. Calls(s) /\ Remembers(p, s)
  BY DEF Balanced
<1>2. /\ Skipping(s) \in SUBSET (1 .. Len(s)) /\ Opened(s) \in SUBSET (1 .. Len(s))
  BY <1>1, FramePlaces
<1>3. /\ Calls(c)
      /\ Skipping(c) = Shifted(Skipping(s), Len(s), Skipping(t))
      /\ Opened(c) = Shifted(Opened(s), Len(s), Opened(t))
  BY <1>1, FitsCalls
<1>4. Remembers(p, c)
  BY <1>1, PlacesStay
<1>5. Skipping(c) = Skipping(s) /\ Opened(c) = Opened(s)
  BY <1>1, <1>2, <1>3, ShiftedSame
<1>6. QED
  BY <1>3, <1>4, <1>5 DEF Balanced

\* ... one that begins to read ahead sets its own, with the place to go back to ...
LEMMA ReadsAhead ==
  ASSUME NEW s, NEW t, NEW c, NEW p, NEW m, NEW e, NEW j \in Nat, NEW x \in Nat,
         Balanced(s, p, m, e), Fits(t, s), Replaces(c, s, t),
         j >= 1, ~Skips(Last(s)),
         Begun(t) = {j}, Skipping(t) = {j}, x = After(t[j].begin),
         Same(Opened(s), Len(s), Opened(t))
  PROVE  Balanced(c, Append(p, x), m + 1, e)
<1>1. Calls(s) /\ Remembers(p, s) /\ p \in Seq(Nat) /\ m \in Nat /\ Numbered(m, Skipping(s))
  BY DEF Balanced
<1>2. /\ Len(s) \in Nat /\ Len(s) >= 1
      /\ Begun(s) \in SUBSET (1 .. Len(s)) /\ Skipping(s) \in SUBSET (1 .. Len(s))
      /\ Opened(s) \in SUBSET (1 .. Len(s))
      /\ Len(s) \in Begun(s) <=> Last(s).at \in Begins
      /\ Len(s) \in Skipping(s) <=> Skips(Last(s))
  BY <1>1, FramePlaces
<1>3. Len(s) \notin Begun(s) /\ Len(s) \notin Skipping(s)
  BY <1>2 DEF Skips
<1>4. /\ Calls(c)
      /\ Begun(c) = Shifted(Begun(s), Len(s), Begun(t))
      /\ Skipping(c) = Shifted(Skipping(s), Len(s), Skipping(t))
      /\ Opened(c) = Shifted(Opened(s), Len(s), Opened(t))
      /\ \A i \in 1 .. Len(s) - 1 : c[i] = s[i]
      /\ \A i \in DOMAIN t : c[Len(s) - 1 + i] = t[i]
  <2>1. Moved(c, s, t)
    BY <1>1, FitsCalls, ZenonT(60)
  <2>2. QED
    BY <2>1, ZenonT(60) DEF Moved
<1>5. PICK n : n = Len(s) - 1 + j
  OBVIOUS
<1>6. /\ Begun(c) = Begun(s) \cup {n} /\ n \in Nat
      /\ Begun(s) \in SUBSET Nat /\ \A i \in Begun(s) : i < n
  <2>1. /\ Shifted(Begun(s), Len(s), {j}) = Begun(s) \cup {n} /\ n \in Nat
        /\ Begun(s) \in SUBSET Nat /\ \A i \in Begun(s) : i < n
    BY <1>2, <1>3, <1>5, ShiftIn, ZenonT(60)
  <2>2. QED
    BY <2>1, <1>4
<1>7. /\ Skipping(c) = Skipping(s) \cup {n}
      /\ Skipping(s) \in SUBSET Nat /\ \A i \in Skipping(s) : i < n
  <2>1. /\ Shifted(Skipping(s), Len(s), {j}) = Skipping(s) \cup {n}
        /\ Skipping(s) \in SUBSET Nat /\ \A i \in Skipping(s) : i < n
    BY <1>2, <1>3, <1>5, ShiftIn, ZenonT(60)
  <2>2. QED
    BY <2>1, <1>4
<1>8. Numbered(m + 1, Skipping(c)) /\ m + 1 \in Nat
  BY <1>1, <1>6, <1>7, NumberPush
<1>9. Opened(c) = Opened(s)
  BY <1>1, <1>2, <1>4, ShiftedSame
<1>10. c[n] = t[j]
  <2>1. j \in DOMAIN t
    BY DEF Begun
  <2>2. QED
    BY <2>1, <1>4, <1>5
<1>11. \A i \in Begun(s) : c[i].begin = s[i].begin
  <2> SUFFICES ASSUME NEW i \in Begun(s) PROVE c[i] = s[i]
    OBVIOUS
  <2>1. i \in 1 .. Len(s) /\ i # Len(s)
    BY <1>2, <1>3
  <2>2. i \in 1 .. Len(s) - 1
    BY <2>1, <1>2
  <2>3. QED
    BY <2>2, <1>4
<1>12. Remembers(Append(p, x), c)
  BY <1>1, <1>6, <1>10, <1>11, RemembersIn
<1>13. Append(p, x) \in Seq(Nat)
  BY <1>1, AppendParts
<1>14. QED
  BY <1>4, <1>8, <1>9, <1>12, <1>13 DEF Balanced

\* ... and one that ends it takes them along.
LEMMA GoesBack ==
  ASSUME NEW s, NEW t, NEW c, NEW p, NEW m, NEW e,
         Balanced(s, p, m, e), Fits(t, s), Replaces(c, s, t),
         Last(s).at \in Begins,
         Begun(t) = {}, Skipping(t) = {},
         Same(Opened(s), Len(s), Opened(t))
  PROVE  /\ p # <<>> /\ Last(p) = After(Last(s).begin)
         /\ m >= 1 /\ Balanced(c, Front(p), m - 1, e)
<1>1. Calls(s) /\ Remembers(p, s) /\ p \in Seq(Nat) /\ m \in Nat /\ Numbered(m, Skipping(s))
  BY DEF Balanced
<1>2. /\ Len(s) \in Nat /\ Len(s) >= 1 /\ Last(s) = s[Len(s)]
      /\ Begun(s) \in SUBSET (1 .. Len(s)) /\ Skipping(s) \in SUBSET (1 .. Len(s))
      /\ Opened(s) \in SUBSET (1 .. Len(s))
      /\ Len(s) \in Begun(s) <=> Last(s).at \in Begins
      /\ Len(s) \in Skipping(s) <=> Skips(Last(s))
  BY <1>1, FramePlaces
<1>3. Len(s) \in Begun(s) /\ Len(s) \in Skipping(s)
  BY <1>2 DEF Skips
<1>4. /\ Calls(c)
      /\ Begun(c) = Shifted(Begun(s), Len(s), Begun(t))
      /\ Skipping(c) = Shifted(Skipping(s), Len(s), Skipping(t))
      /\ Opened(c) = Shifted(Opened(s), Len(s), Opened(t))
      /\ \A i \in 1 .. Len(s) - 1 : c[i] = s[i]
  <2>1. Moved(c, s, t)
    BY <1>1, FitsCalls, ZenonT(60)
  <2>2. QED
    BY <2>1, ZenonT(60) DEF Moved
<1>5. /\ Begun(c) = Begun(s) \ {Len(s)}
      /\ Begun(s) \in SUBSET Nat /\ \A i \in Begun(s) : i <= Len(s)
  <2>1. /\ Shifted(Begun(s), Len(s), {}) = Begun(s) \ {Len(s)}
        /\ Begun(s) \in SUBSET Nat /\ \A i \in Begun(s) : i <= Len(s)
    BY <1>2, <1>3, ShiftOut, ZenonT(60)
  <2>2. QED
    BY <2>1, <1>4
<1>6. /\ Skipping(c) = Skipping(s) \ {Len(s)}
      /\ Skipping(s) \in SUBSET Nat /\ \A i \in Skipping(s) : i <= Len(s)
  <2>1. /\ Shifted(Skipping(s), Len(s), {}) = Skipping(s) \ {Len(s)}
        /\ Skipping(s) \in SUBSET Nat /\ \A i \in Skipping(s) : i <= Len(s)
    BY <1>2, <1>3, ShiftOut, ZenonT(60)
  <2>2. QED
    BY <2>1, <1>4
<1>7. m >= 1 /\ Numbered(m - 1, Skipping(c))
  BY <1>1, <1>3, <1>6, NumberPop
<1>8. m - 1 \in Nat
  BY <1>1, <1>7
<1>9. Opened(c) = Opened(s)
  BY <1>1, <1>2, <1>4, ShiftedSame
<1>10. \A i \in Begun(c) : c[i].begin = s[i].begin
  <2> SUFFICES ASSUME NEW i \in Begun(c) PROVE c[i] = s[i]
    OBVIOUS
  <2>1. i \in 1 .. Len(s) /\ i # Len(s)
    BY <1>2, <1>5
  <2>2. i \in 1 .. Len(s) - 1
    BY <2>1, <1>2
  <2>3. QED
    BY <2>2, <1>4
<1>11. p # <<>> /\ Last(p) = After(s[Len(s)].begin) /\ Remembers(Front(p), c)
  BY <1>1, <1>2, <1>3, <1>5, <1>10, RemembersOut
<1>12. Front(p) \in Seq(Nat)
  BY <1>1, <1>11, FrontType
<1>13. QED
  BY <1>2, <1>4, <1>7, <1>8, <1>9, <1>11, <1>12 DEF Balanced

\* Only Sema's mode is set, for a typedef's declarator ...
LEMMA StartsSkip ==
  ASSUME NEW s, NEW t, NEW c, NEW p, NEW m, NEW e, NEW j \in Nat,
         Balanced(s, p, m, e), Fits(t, s), Replaces(c, s, t),
         Same(Begun(s), Len(s), Begun(t)),
         Last(s).at \in Begins => t[1].begin = Last(s).begin,
         j >= 1, ~Skips(Last(s)), Skipping(t) = {j},
         Same(Opened(s), Len(s), Opened(t))
  PROVE  Balanced(c, p, m + 1, e)
<1>1. Calls(s) /\ Remembers(p, s) /\ p \in Seq(Nat) /\ m \in Nat /\ Numbered(m, Skipping(s))
  BY DEF Balanced
<1>2. /\ Len(s) \in Nat /\ Len(s) >= 1
      /\ Skipping(s) \in SUBSET (1 .. Len(s)) /\ Opened(s) \in SUBSET (1 .. Len(s))
      /\ Len(s) \in Skipping(s) <=> Skips(Last(s))
      /\ Len(s) \in Opened(s) <=> Last(s).at \in Scopes
  BY <1>1, FramePlaces
<1>3. Len(s) \notin Skipping(s)
  BY <1>2
<1>4. /\ Calls(c)
      /\ Skipping(c) = Shifted(Skipping(s), Len(s), Skipping(t))
      /\ Opened(c) = Shifted(Opened(s), Len(s), Opened(t))
  <2>1. Moved(c, s, t)
    BY <1>1, FitsCalls, ZenonT(60)
  <2>2. QED
    BY <2>1, ZenonT(60) DEF Moved
<1>5. Remembers(p, c)
  BY <1>1, PlacesStay, ZenonT(60)
<1>6. Opened(c) = Opened(s)
  BY <1>1, <1>2, <1>4, ShiftedSame
<1>7. PICK n : n = Len(s) - 1 + j
  OBVIOUS
<1>8. /\ Shifted(Skipping(s), Len(s), {j}) = Skipping(s) \cup {n} /\ n \in Nat
      /\ Skipping(s) \in SUBSET Nat /\ \A i \in Skipping(s) : i < n
  BY <1>2, <1>3, <1>7, ShiftIn, ZenonT(60)
<1>9. Numbered(m + 1, Skipping(c)) /\ m + 1 \in Nat
  <2>1. Skipping(c) = Skipping(s) \cup {n}
    BY <1>4, <1>8
  <2>2. Numbered(m + 1, Skipping(s) \cup {n})
    BY <1>1, <1>8, NumberPush
  <2>3. QED
    BY <2>1, <2>2, <1>1
<1>10. QED
  BY <1>1, <1>4, <1>5, <1>6, <1>9 DEF Balanced

\* ... and put back.
LEMMA EndsSkip ==
  ASSUME NEW s, NEW t, NEW c, NEW p, NEW m, NEW e,
         Balanced(s, p, m, e), Fits(t, s), Replaces(c, s, t),
         Same(Begun(s), Len(s), Begun(t)),
         Last(s).at \in Begins => t[1].begin = Last(s).begin,
         Skips(Last(s)), Skipping(t) = {},
         Same(Opened(s), Len(s), Opened(t))
  PROVE  m >= 1 /\ Balanced(c, p, m - 1, e)
<1>1. Calls(s) /\ Remembers(p, s) /\ p \in Seq(Nat) /\ m \in Nat /\ Numbered(m, Skipping(s))
  BY DEF Balanced
<1>2. /\ Len(s) \in Nat /\ Len(s) >= 1
      /\ Skipping(s) \in SUBSET (1 .. Len(s)) /\ Opened(s) \in SUBSET (1 .. Len(s))
      /\ Len(s) \in Skipping(s) <=> Skips(Last(s))
      /\ Len(s) \in Opened(s) <=> Last(s).at \in Scopes
  BY <1>1, FramePlaces
<1>3. Len(s) \in Skipping(s)
  BY <1>2
<1>4. /\ Calls(c)
      /\ Skipping(c) = Shifted(Skipping(s), Len(s), Skipping(t))
      /\ Opened(c) = Shifted(Opened(s), Len(s), Opened(t))
  <2>1. Moved(c, s, t)
    BY <1>1, FitsCalls, ZenonT(60)
  <2>2. QED
    BY <2>1, ZenonT(60) DEF Moved
<1>5. Remembers(p, c)
  BY <1>1, PlacesStay, ZenonT(60)
<1>6. Opened(c) = Opened(s)
  BY <1>1, <1>2, <1>4, ShiftedSame
<1>7. /\ Shifted(Skipping(s), Len(s), {}) = Skipping(s) \ {Len(s)}
      /\ Skipping(s) \in SUBSET Nat /\ \A i \in Skipping(s) : i <= Len(s)
  BY <1>2, <1>3, ShiftOut, ZenonT(60)
<1>8. m >= 1 /\ Numbered(m - 1, Skipping(c))
  BY ZenonT(60), <1>1, <1>3, <1>4, <1>7, NumberPop
<1>9. m - 1 \in Nat
  BY <1>1, <1>8
<1>10. QED
  BY <1>1, <1>4, <1>5, <1>6, <1>8, <1>9 DEF Balanced

\* A scope is opened ...
LEMMA OpensScope ==
  ASSUME NEW s, NEW t, NEW c, NEW p, NEW m, NEW e, NEW j \in Nat,
         Balanced(s, p, m, e), Fits(t, s), Replaces(c, s, t),
         Same(Begun(s), Len(s), Begun(t)),
         Last(s).at \in Begins => t[1].begin = Last(s).begin,
         j >= 1, Last(s).at \notin Scopes, Opened(t) = {j},
         Same(Skipping(s), Len(s), Skipping(t))
  PROVE  Balanced(c, p, m, e + 1)
<1>1. Calls(s) /\ Remembers(p, s) /\ p \in Seq(Nat) /\ e \in Nat /\ Numbered(e, Opened(s))
  BY DEF Balanced
<1>2. /\ Len(s) \in Nat /\ Len(s) >= 1
      /\ Skipping(s) \in SUBSET (1 .. Len(s)) /\ Opened(s) \in SUBSET (1 .. Len(s))
      /\ Len(s) \in Skipping(s) <=> Skips(Last(s))
      /\ Len(s) \in Opened(s) <=> Last(s).at \in Scopes
  BY <1>1, FramePlaces
<1>3. Len(s) \notin Opened(s)
  BY <1>2
<1>4. /\ Calls(c)
      /\ Skipping(c) = Shifted(Skipping(s), Len(s), Skipping(t))
      /\ Opened(c) = Shifted(Opened(s), Len(s), Opened(t))
  <2>1. Moved(c, s, t)
    BY <1>1, FitsCalls, ZenonT(60)
  <2>2. QED
    BY <2>1, ZenonT(60) DEF Moved
<1>5. Remembers(p, c)
  BY <1>1, PlacesStay, ZenonT(60)
<1>6. Skipping(c) = Skipping(s)
  BY <1>1, <1>2, <1>4, ShiftedSame
<1>7. PICK n : n = Len(s) - 1 + j
  OBVIOUS
<1>8. /\ Shifted(Opened(s), Len(s), {j}) = Opened(s) \cup {n} /\ n \in Nat
      /\ Opened(s) \in SUBSET Nat /\ \A i \in Opened(s) : i < n
  BY <1>2, <1>3, <1>7, ShiftIn, ZenonT(60)
<1>9. Numbered(e + 1, Opened(c)) /\ e + 1 \in Nat
  <2>1. Opened(c) = Opened(s) \cup {n}
    BY <1>4, <1>8
  <2>2. Numbered(e + 1, Opened(s) \cup {n})
    BY <1>1, <1>8, NumberPush
  <2>3. QED
    BY <2>1, <2>2, <1>1
<1>10. QED
  BY <1>1, <1>4, <1>5, <1>6, <1>9 DEF Balanced

\* ... and closed.
LEMMA ClosesScope ==
  ASSUME NEW s, NEW t, NEW c, NEW p, NEW m, NEW e,
         Balanced(s, p, m, e), Fits(t, s), Replaces(c, s, t),
         Same(Begun(s), Len(s), Begun(t)),
         Last(s).at \in Begins => t[1].begin = Last(s).begin,
         Last(s).at \in Scopes, Opened(t) = {},
         Same(Skipping(s), Len(s), Skipping(t))
  PROVE  e >= 1 /\ Balanced(c, p, m, e - 1)
<1>1. Calls(s) /\ Remembers(p, s) /\ p \in Seq(Nat) /\ e \in Nat /\ Numbered(e, Opened(s))
  BY DEF Balanced
<1>2. /\ Len(s) \in Nat /\ Len(s) >= 1
      /\ Skipping(s) \in SUBSET (1 .. Len(s)) /\ Opened(s) \in SUBSET (1 .. Len(s))
      /\ Len(s) \in Skipping(s) <=> Skips(Last(s))
      /\ Len(s) \in Opened(s) <=> Last(s).at \in Scopes
  BY <1>1, FramePlaces
<1>3. Len(s) \in Opened(s)
  BY <1>2
<1>4. /\ Calls(c)
      /\ Skipping(c) = Shifted(Skipping(s), Len(s), Skipping(t))
      /\ Opened(c) = Shifted(Opened(s), Len(s), Opened(t))
  <2>1. Moved(c, s, t)
    BY <1>1, FitsCalls, ZenonT(60)
  <2>2. QED
    BY <2>1, ZenonT(60) DEF Moved
<1>5. Remembers(p, c)
  BY <1>1, PlacesStay, ZenonT(60)
<1>6. Skipping(c) = Skipping(s)
  BY <1>1, <1>2, <1>4, ShiftedSame
<1>7. /\ Shifted(Opened(s), Len(s), {}) = Opened(s) \ {Len(s)}
      /\ Opened(s) \in SUBSET Nat /\ \A i \in Opened(s) : i <= Len(s)
  BY <1>2, <1>3, ShiftOut, ZenonT(60)
<1>8. e >= 1 /\ Numbered(e - 1, Opened(c))
  BY ZenonT(60), <1>1, <1>3, <1>4, <1>7, NumberPop
<1>9. e - 1 \in Nat
  BY <1>1, <1>8
<1>10. QED
  BY <1>1, <1>4, <1>5, <1>6, <1>8, <1>9 DEF Balanced

-----------------------------------------------------------------------------
(* The invariant of the parser *)

\* The lexer is behind the current token,
LexerOK == tok \in Nat /\ OneAhead

\* Sema's first mode is Normal,
ModesOK == modes \in Seq({"Normal", "Skip"}) /\ modes # <<>> /\ modes[1] = "Normal"

\* and the scope of the file is open:
EnvsOK == IsSeq(envs) /\ envs # <<>>

\* each of Sema's stacks has its first element.
SemaOK == ModesOK /\ EnvsOK

\* The stacks of the lexer and of Sema are balanced with the parser's calls.
Stacked == Balanced(control, saved, Len(modes) - 1, Len(envs) - 1)

\* Specifiers that ParseDeclSpec rejects stop the parser.
StatusOK == IInv /\ (outcome = "parsing" => status # "rejected")

\* The inductive invariant.
DInv == LexerOK /\ SemaOK /\ Stacked /\ StatusOK

-----------------------------------------------------------------------------
(* Frames without marks *)

\* A frame without a mark.
Plain(fr) == FrameOK(fr) /\ fr.at # "ParseProgram" /\ fr.at \notin Begins \cup Scopes /\ ~Skips(fr)

\* Frames without marks,
PlainSeq(t) == IsSeq(t) /\ \A j \in DOMAIN t : Plain(t[j])

\* and frames of which only the first, a, may have one.
Headed(t, a) ==
    /\ IsSeq(t) /\ 1 \in DOMAIN t /\ t[1] = a
    /\ FrameOK(a) /\ a.at # "ParseProgram"
    /\ \A j \in DOMAIN t : j # 1 => Plain(t[j])

\* Up to three frames without marks,
LEMMA PlainFew ==
  ASSUME NEW a, NEW b, NEW c
  PROVE  /\ PlainSeq(<<>>)
         /\ Plain(a) => PlainSeq(<<a>>)
         /\ Plain(a) /\ Plain(b) => PlainSeq(<<a, b>>)
         /\ Plain(a) /\ Plain(b) /\ Plain(c) => PlainSeq(<<a, b, c>>)
<1>1. /\ IsSeq(<<>>) /\ IsSeq(<<a>>) /\ IsSeq(<<a, b>>) /\ IsSeq(<<a, b, c>>)
      /\ <<a>>[1] = a /\ <<a, b>>[1] = a /\ <<a, b>>[2] = b
      /\ <<a, b, c>>[1] = a /\ <<a, b, c>>[2] = b /\ <<a, b, c>>[3] = c
  BY FewFrames
<1>2. /\ DOMAIN <<>> = {} /\ DOMAIN <<a>> = {1} /\ DOMAIN <<a, b>> = {1, 2}
      /\ DOMAIN <<a, b, c>> = {1, 2, 3}
  OBVIOUS
<1>3. QED
  BY <1>1, <1>2, ZenonT(60) DEF PlainSeq

\* and up to two behind one that may have one.
LEMMA HeadedFew ==
  ASSUME NEW a, NEW b, NEW c, FrameOK(a), a.at # "ParseProgram"
  PROVE  /\ Headed(<<a>>, a)
         /\ Plain(b) => Headed(<<a, b>>, a)
         /\ Plain(b) /\ Plain(c) => Headed(<<a, b, c>>, a)
<1>1. /\ IsSeq(<<a>>) /\ IsSeq(<<a, b>>) /\ IsSeq(<<a, b, c>>)
      /\ <<a>>[1] = a /\ <<a, b>>[1] = a /\ <<a, b>>[2] = b
      /\ <<a, b, c>>[1] = a /\ <<a, b, c>>[2] = b /\ <<a, b, c>>[3] = c
  BY FewFrames
<1>2. /\ DOMAIN <<a>> = {1} /\ DOMAIN <<a, b>> = {1, 2}
      /\ DOMAIN <<a, b, c>> = {1, 2, 3}
  OBVIOUS
<1>3. QED
  BY <1>1, <1>2, ZenonT(60) DEF Headed

\* They fit, with the marks that they should have,
LEMMA PlainMarks ==
  ASSUME NEW t, NEW s, PlainSeq(t), Last(s).at # "ParseProgram"
  PROVE  Fits(t, s) /\ Begun(t) = {} /\ Skipping(t) = {} /\ Opened(t) = {}
<1>1. Begun(t) = {} /\ Skipping(t) = {} /\ Opened(t) = {}
  BY DEF PlainSeq, Plain, Begun, Skipping, Opened
<1>2. Fits(t, s)
  BY DEF PlainSeq, Plain, Fits
<1>3. QED
  BY <1>1, <1>2

\* of which the first is the only one.
LEMMA HeadedMarks ==
  ASSUME NEW t, NEW a, NEW s, Headed(t, a), Last(s).at # "ParseProgram"
  PROVE  /\ Fits(t, s)
         /\ Begun(t) = IF a.at \in Begins THEN {1} ELSE {}
         /\ Skipping(t) = IF Skips(a) THEN {1} ELSE {}
         /\ Opened(t) = IF a.at \in Scopes THEN {1} ELSE {}
<1>1. \A j \in DOMAIN t : j = 1 \/ (t[j].at \notin Begins /\ ~Skips(t[j]) /\ t[j].at \notin Scopes)
  BY DEF Headed, Plain
<1>2. 1 \in DOMAIN t /\ t[1] = a
  BY DEF Headed
<1>3. Begun(t) = IF a.at \in Begins THEN {1} ELSE {}
  BY <1>1, <1>2 DEF Begun
<1>4. Skipping(t) = IF Skips(a) THEN {1} ELSE {}
  BY <1>1, <1>2 DEF Skipping
<1>5. Opened(t) = IF a.at \in Scopes THEN {1} ELSE {}
  BY <1>1, <1>2 DEF Opened
<1>6. Fits(t, s)
  <2>1. \A j \in DOMAIN t : FrameOK(t[j]) /\ t[j].at # "ParseProgram"
    BY DEF Headed, Plain
  <2>2. QED
    BY <2>1 DEF Headed, Fits
<1>7. QED
  BY <1>3, <1>4, <1>5, <1>6

\* A frame without a mark leaves none.
LEMMA PlainSame ==
  ASSUME NEW s, Calls(s), Plain(Last(s))
  PROVE  /\ Same(Begun(s), Len(s), {}) /\ Same(Skipping(s), Len(s), {}) /\ Same(Opened(s), Len(s), {})
         /\ Last(s).at \notin Begins
BY FramePlaces DEF Plain, Same

\* The invariant speaks of the next state as of this one: only the text is in it.
LEMMA NextStacked ==
  ASSUME text' = text, NEW m, NEW e, Balanced(control', saved', m, e),
         m = Len(modes') - 1, e = Len(envs') - 1
  PROVE  Stacked'
<1>1. Balanced(control', saved', Len(modes') - 1, Len(envs') - 1)
  OBVIOUS
<1>2. (Remembers(saved, control))' <=> Remembers(saved', control')
  BY DEF Remembers, After
<1>3. QED
  BY <1>1, <1>2 DEF Stacked, Balanced

-----------------------------------------------------------------------------
(* The frames of a step *)

\* The stacks stay balanced when a frame without a mark is replaced,
LEMMA PlainStep ==
  ASSUME DInv, text' = text, NEW t, control' = Front(control) \o t,
         Plain(Frame), PlainSeq(t),
         saved' = saved, Len(modes') = Len(modes), Len(envs') = Len(envs)
  PROVE  Stacked'
<1>1. Balanced(control, saved, Len(modes) - 1, Len(envs) - 1) /\ Calls(control)
  BY DEF DInv, Stacked, Balanced
<1>2. Replaces(control', control, t)
  BY DEF Replaces
<1>3. Fits(t, control) /\ Begun(t) = {} /\ Skipping(t) = {} /\ Opened(t) = {}
  BY PlainMarks DEF Plain, Frame
<1>4. /\ Same(Begun(control), Len(control), Begun(t))
      /\ Same(Skipping(control), Len(control), Skipping(t))
      /\ Same(Opened(control), Len(control), Opened(t))
      /\ Last(control).at \notin Begins
  BY <1>1, <1>3, PlainSame DEF Frame
<1>5. Balanced(control', saved, Len(modes) - 1, Len(envs) - 1)
  BY <1>1, <1>2, <1>3, <1>4, GoesOn, ZenonT(60)
<1>6. QED
  BY <1>5, NextStacked

\* when the innermost frame goes on with its marks,
LEMMA SameStep ==
  ASSUME DInv, text' = text, NEW t, NEW a, control' = Front(control) \o t,
         Frame.at # "ParseProgram", Headed(t, a),
         a.at \in Begins <=> Frame.at \in Begins, Frame.at \in Begins => a.begin = Frame.begin,
         Skips(a) <=> Skips(Frame), a.at \in Scopes <=> Frame.at \in Scopes,
         saved' = saved, Len(modes') = Len(modes), Len(envs') = Len(envs)
  PROVE  Stacked'
<1>1. Balanced(control, saved, Len(modes) - 1, Len(envs) - 1) /\ Calls(control)
  BY DEF DInv, Stacked, Balanced
<1>2. Replaces(control', control, t)
  BY DEF Replaces
<1>3. /\ Fits(t, control)
      /\ Begun(t) = IF a.at \in Begins THEN {1} ELSE {}
      /\ Skipping(t) = IF Skips(a) THEN {1} ELSE {}
      /\ Opened(t) = IF a.at \in Scopes THEN {1} ELSE {}
      /\ t[1] = a
  BY HeadedMarks DEF Frame, Headed
<1>4. /\ Len(control) \in Begun(control) <=> Frame.at \in Begins
      /\ Len(control) \in Skipping(control) <=> Skips(Frame)
      /\ Len(control) \in Opened(control) <=> Frame.at \in Scopes
  BY <1>1, FramePlaces DEF Frame
<1>5. /\ Same(Begun(control), Len(control), Begun(t))
      /\ Same(Skipping(control), Len(control), Skipping(t))
      /\ Same(Opened(control), Len(control), Opened(t))
  BY <1>3, <1>4 DEF Same
<1>6. Last(control).at \in Begins => t[1].begin = Last(control).begin
  BY <1>3 DEF Frame
<1>7. Balanced(control', saved, Len(modes) - 1, Len(envs) - 1)
  BY <1>1, <1>2, <1>3, <1>5, <1>6, GoesOn, ZenonT(60)
<1>8. QED
  BY <1>7, NextStacked

\* when what was read ahead is put back: there is a place to go back to, the one
\* that this function saved,
LEMMA BackStep ==
  ASSUME DInv, text' = text, NEW t, control' = Front(control) \o t,
         Frame.at \in Begins, PlainSeq(t),
         saved' = Front(saved), Len(modes') = Len(modes) - 1, Len(envs') = Len(envs)
  PROVE  /\ Stacked' /\ saved # <<>> /\ Last(saved) = After(Frame.begin)
         /\ Len(modes) - 1 >= 1 /\ Frame.begin \in Nat
<1>1. Balanced(control, saved, Len(modes) - 1, Len(envs) - 1) /\ Calls(control)
  BY DEF DInv, Stacked, Balanced
<1>2. Replaces(control', control, t)
  BY DEF Replaces
<1>3. /\ Frame.at # "ParseProgram" /\ Frame.at \notin Scopes
      /\ FrameOK(Frame)
  BY <1>1, FramePlaces DEF Begins, Scopes, Frame
<1>4. Fits(t, control) /\ Begun(t) = {} /\ Skipping(t) = {} /\ Opened(t) = {}
  BY <1>3, PlainMarks DEF Frame
<1>5. Len(control) \in Opened(control) <=> Frame.at \in Scopes
  BY <1>1, FramePlaces DEF Frame
<1>6. Same(Opened(control), Len(control), Opened(t))
  BY <1>3, <1>4, <1>5 DEF Same
<1>7. /\ saved # <<>> /\ Last(saved) = After(Frame.begin) /\ Len(modes) - 1 >= 1
      /\ Balanced(control', Front(saved), (Len(modes) - 1) - 1, Len(envs) - 1)
  BY <1>1, <1>2, <1>4, <1>6, GoesBack, ZenonT(60) DEF Frame
<1>8. Stacked'
  BY <1>7, NextStacked
<1>9. Frame.begin \in Nat
  BY <1>3 DEF FrameOK
<1>10. QED
  BY <1>7, <1>8, <1>9

\* when reading ahead begins,
LEMMA ReadStep ==
  ASSUME DInv, text' = text, NEW t, NEW j \in Nat, control' = Front(control) \o t,
         Fits(t, control), j >= 1, Begun(t) = {j}, Skipping(t) = {j}, Opened(t) = {},
         t[j].begin = tok, Frame.at \notin Scopes, ~Skips(Frame),
         saved' = Append(saved, lexed), Len(modes') = Len(modes) + 1, Len(envs') = Len(envs)
  PROVE  Stacked'
<1>1. Balanced(control, saved, Len(modes) - 1, Len(envs) - 1) /\ Calls(control)
  BY DEF DInv, Stacked, Balanced
<1>2. Replaces(control', control, t)
  BY DEF Replaces
<1>3. Len(control) \in Opened(control) <=> Frame.at \in Scopes
  BY <1>1, FramePlaces DEF Frame
<1>4. Same(Opened(control), Len(control), Opened(t))
  BY <1>3 DEF Same
<1>5. lexed \in Nat /\ lexed = After(t[j].begin)
  BY DEF DInv, LexerOK, OneAhead, After
<1>6. Balanced(control', Append(saved, lexed), (Len(modes) - 1) + 1, Len(envs) - 1)
  BY <1>1, <1>2, <1>4, <1>5, ReadsAhead, ZenonT(60) DEF Frame
<1>7. Len(modes) \in Nat
  BY DEF DInv, SemaOK, ModesOK, EnvsOK
<1>8. QED
  BY SMTT(60), <1>6, <1>7, NextStacked

\* when only Sema's mode is set
LEMMA SkipStep ==
  ASSUME DInv, text' = text, NEW t, NEW a, control' = Front(control) \o t,
         Plain(Frame), Headed(t, a), Skips(a), a.at \notin Begins \cup Scopes,
         saved' = saved, Len(modes') = Len(modes) + 1, Len(envs') = Len(envs)
  PROVE  Stacked'
<1>1. Balanced(control, saved, Len(modes) - 1, Len(envs) - 1) /\ Calls(control)
  BY DEF DInv, Stacked, Balanced
<1>2. Replaces(control', control, t)
  BY DEF Replaces
<1>3. Frame.at # "ParseProgram" /\ Frame.at \notin Begins /\ Frame.at \notin Scopes /\ ~Skips(Frame)
  BY DEF Plain
<1>4. /\ Fits(t, control)
      /\ Begun(t) = IF a.at \in Begins THEN {1} ELSE {}
      /\ Skipping(t) = IF Skips(a) THEN {1} ELSE {}
      /\ Opened(t) = IF a.at \in Scopes THEN {1} ELSE {}
  BY <1>3, HeadedMarks DEF Frame
<1>5. Begun(t) = {} /\ Skipping(t) = {1} /\ Opened(t) = {}
  BY <1>4 DEF Skips, Begins, Scopes
<1>6. /\ Len(control) \in Begun(control) <=> Frame.at \in Begins
      /\ Len(control) \in Skipping(control) <=> Skips(Frame)
      /\ Len(control) \in Opened(control) <=> Frame.at \in Scopes
  BY <1>1, FramePlaces DEF Frame
<1>7. /\ Same(Begun(control), Len(control), Begun(t))
      /\ Same(Opened(control), Len(control), Opened(t))
      /\ Last(control).at \notin Begins
  BY <1>3, <1>5, <1>6 DEF Same, Frame
<1>8. Balanced(control', saved, (Len(modes) - 1) + 1, Len(envs) - 1)
  <2>1. 1 \in Nat /\ 1 >= 1
    OBVIOUS
  <2>2. QED
    BY <2>1, <1>1, <1>2, <1>3, <1>4, <1>5, <1>7, StartsSkip, ZenonT(60) DEF Frame
<1>9. Len(modes) \in Nat /\ Len(envs) \in Nat
  BY SeqParts DEF DInv, SemaOK, ModesOK, EnvsOK
<1>10. QED
  BY <1>8, <1>9, NextStacked

\* and when it is unset: it was not the first,
LEMMA SkipEnd ==
  ASSUME DInv, text' = text, NEW t, control' = Front(control) \o t,
         Frame.at # "ParseProgram", Skips(Frame), Frame.at \notin Begins \cup Scopes, PlainSeq(t),
         saved' = saved, Len(modes') = Len(modes) - 1, Len(envs') = Len(envs)
  PROVE  Stacked' /\ Len(modes) - 1 >= 1
<1>1. Balanced(control, saved, Len(modes) - 1, Len(envs) - 1) /\ Calls(control)
  BY DEF DInv, Stacked, Balanced
<1>2. Replaces(control', control, t)
  BY DEF Replaces
<1>3. Frame.at \notin Begins /\ Frame.at \notin Scopes
  BY DEF Skips, Begins, Scopes
<1>4. Fits(t, control) /\ Begun(t) = {} /\ Skipping(t) = {} /\ Opened(t) = {}
  BY PlainMarks DEF Frame
<1>5. Begun(t) = {} /\ Skipping(t) = {} /\ Opened(t) = {}
  BY <1>4
<1>6. /\ Len(control) \in Begun(control) <=> Frame.at \in Begins
      /\ Len(control) \in Skipping(control) <=> Skips(Frame)
      /\ Len(control) \in Opened(control) <=> Frame.at \in Scopes
  BY <1>1, FramePlaces DEF Frame
<1>7. /\ Same(Begun(control), Len(control), Begun(t))
      /\ Same(Opened(control), Len(control), Opened(t))
      /\ Last(control).at \notin Begins
  BY <1>3, <1>5, <1>6 DEF Same, Frame
<1>8. Len(modes) - 1 >= 1 /\ Balanced(control', saved, (Len(modes) - 1) - 1, Len(envs) - 1)
  BY <1>1, <1>2, <1>3, <1>4, <1>5, <1>7, EndsSkip, ZenonT(60) DEF Frame
<1>9. Len(modes) \in Nat /\ Len(envs) \in Nat
  BY SeqParts DEF DInv, SemaOK, ModesOK, EnvsOK
<1>10. QED
  BY <1>8, <1>9, NextStacked

\* when a scope is opened
LEMMA ScopeStep ==
  ASSUME DInv, text' = text, NEW t, NEW a, control' = Front(control) \o t,
         Plain(Frame), Headed(t, a), a.at \in Scopes, ~Skips(a),
         saved' = saved, Len(modes') = Len(modes), Len(envs') = Len(envs) + 1
  PROVE  Stacked'
<1>1. Balanced(control, saved, Len(modes) - 1, Len(envs) - 1) /\ Calls(control)
  BY DEF DInv, Stacked, Balanced
<1>2. Replaces(control', control, t)
  BY DEF Replaces
<1>3. Frame.at # "ParseProgram" /\ Frame.at \notin Begins /\ Frame.at \notin Scopes /\ ~Skips(Frame)
  BY DEF Plain
<1>4. /\ Fits(t, control)
      /\ Begun(t) = IF a.at \in Begins THEN {1} ELSE {}
      /\ Skipping(t) = IF Skips(a) THEN {1} ELSE {}
      /\ Opened(t) = IF a.at \in Scopes THEN {1} ELSE {}
  BY <1>3, HeadedMarks DEF Frame
<1>5. Begun(t) = {} /\ Opened(t) = {1} /\ Skipping(t) = {}
  BY <1>4 DEF Skips, Begins, Scopes
<1>6. /\ Len(control) \in Begun(control) <=> Frame.at \in Begins
      /\ Len(control) \in Skipping(control) <=> Skips(Frame)
      /\ Len(control) \in Opened(control) <=> Frame.at \in Scopes
  BY <1>1, FramePlaces DEF Frame
<1>7. /\ Same(Begun(control), Len(control), Begun(t))
      /\ Same(Skipping(control), Len(control), Skipping(t))
      /\ Last(control).at \notin Begins
  BY <1>3, <1>5, <1>6 DEF Same, Frame
<1>8. Balanced(control', saved, Len(modes) - 1, (Len(envs) - 1) + 1)
  <2>1. 1 \in Nat /\ 1 >= 1
    OBVIOUS
  <2>2. QED
    BY <2>1, <1>1, <1>2, <1>3, <1>4, <1>5, <1>7, OpensScope, ZenonT(60) DEF Frame
<1>9. Len(modes) \in Nat /\ Len(envs) \in Nat
  BY SeqParts DEF DInv, SemaOK, ModesOK, EnvsOK
<1>10. QED
  BY <1>8, <1>9, NextStacked

\* and when one is closed: it was not the file's.
LEMMA ScopeEnd ==
  ASSUME DInv, text' = text, NEW t, control' = Front(control) \o t,
         Frame.at # "ParseProgram", Frame.at \in Scopes, PlainSeq(t),
         saved' = saved, Len(modes') = Len(modes), Len(envs') = Len(envs) - 1
  PROVE  Stacked' /\ Len(envs) - 1 >= 1
<1>1. Balanced(control, saved, Len(modes) - 1, Len(envs) - 1) /\ Calls(control)
  BY DEF DInv, Stacked, Balanced
<1>2. Replaces(control', control, t)
  BY DEF Replaces
<1>3. Frame.at \notin Begins /\ ~Skips(Frame)
  BY DEF Skips, Begins, Scopes
<1>4. Fits(t, control) /\ Begun(t) = {} /\ Skipping(t) = {} /\ Opened(t) = {}
  BY PlainMarks DEF Frame
<1>5. Begun(t) = {} /\ Opened(t) = {} /\ Skipping(t) = {}
  BY <1>4
<1>6. /\ Len(control) \in Begun(control) <=> Frame.at \in Begins
      /\ Len(control) \in Skipping(control) <=> Skips(Frame)
      /\ Len(control) \in Opened(control) <=> Frame.at \in Scopes
  BY <1>1, FramePlaces DEF Frame
<1>7. /\ Same(Begun(control), Len(control), Begun(t))
      /\ Same(Skipping(control), Len(control), Skipping(t))
      /\ Last(control).at \notin Begins
  BY <1>3, <1>5, <1>6 DEF Same, Frame
<1>8. Len(envs) - 1 >= 1 /\ Balanced(control', saved, Len(modes) - 1, (Len(envs) - 1) - 1)
  BY <1>1, <1>2, <1>3, <1>4, <1>5, <1>7, ClosesScope, ZenonT(60) DEF Frame
<1>9. Len(modes) \in Nat /\ Len(envs) \in Nat
  BY SeqParts DEF DInv, SemaOK, ModesOK, EnvsOK
<1>10. QED
  BY <1>8, <1>9, NextStacked

-----------------------------------------------------------------------------
(* The parts of a step *)

\* Steps that do not read specifiers.
LEMMA StatusStays ==
  ASSUME StatusOK, UNCHANGED specVars, outcome' = "parsing" => outcome = "parsing"
  PROVE  StatusOK'
<1>1. IInv'
  BY SpecStays DEF StatusOK
<1>2. status' = status
  BY DEF specVars
<1>3. QED
  BY <1>1, <1>2 DEF StatusOK

\* The locals of a ParseDeclSpec that comes to a struct ...
LEMMA LocalsAreKept ==
  ASSUME IInv, status # "rejected", usertype = Unused
  PROVE  Kept(<<kind, size, sig, sclass, counts>>)
<1>1. SpecTypeOK /\ Counted /\ ~Clash(kind, size, sig, Unused)
  BY DEF IInv
<1>2. \A t \in UserTypes : counts[t] = 0
  BY <1>1 DEF Counted, One, UserTypes, Unused
<1>3. QED
  BY <1>1, <1>2 DEF Kept, Counted, SpecTypeOK, Signs

\* ClashIsNoType of the enumerations after a step.
LEMMA ClashNow ==
  ASSUME SpecTypeOK', AtLeast', NEW c \in CTypes, Completes(counts', c),
         Clash(kind', size', sig', usertype')
  PROVE  "typedefAsName" \in ShapesOf(counts')
<1>1. /\ kind' \in Kinds \cup {Unused}
      /\ size' \in {"short", "long", Unused} \/ size' = "llong"
      /\ sig' \in Signs \cup {Unused}
      /\ usertype' \in UserTypes \cup {Unused}
      /\ counts' \in [Keywords -> Nat]
  BY DEF SpecTypeOK, Signs
<1>2. QED
  BY <1>1, ClashIsNoType DEF AtLeast

\* ... and when it goes on behind it.
LEMMA RecordIsRead ==
  ASSUME NEW l, Kept(l),
         kind' = l[1], size' = l[2], sig' = l[3], sclass' = l[4], usertype' = "record",
         counts' = [l[5] EXCEPT !["record"] = @ + 1],
         status' = IF Clash(l[1], l[2], l[3], "record") THEN "rejected" ELSE "reading"
  PROVE  IInv'
<1>1. /\ l[5] \in [Keywords -> Nat] /\ "record" \in Keywords /\ l[5]["record"] = 0
      /\ l[1] \in Kinds \cup {Unused} /\ l[2] \in {"short", "long", "llong", Unused}
      /\ l[3] \in Signs \cup {Unused} /\ l[4] \in StorageClasses \cup {Unused}
  BY DEF Kept, Keywords, TypeSpecifiers, UserTypes
<1>2. counts' \in [Keywords -> Nat] /\ counts'["record"] = 1
  BY <1>1
<1>3. \A t \in Keywords \ {"record"} : counts'[t] = l[5][t]
  BY <1>1
<1>4. SpecTypeOK'
  BY <1>1, <1>2 DEF SpecTypeOK, Signs, UserTypes
<1>5. Counted'
  <2>1. \A t \in Kinds : (counts[t] = One(kind = t))'
    BY <1>3 DEF Kept, Keywords, TypeSpecifiers, Kinds
  <2>2. \A t \in Signs : (counts[t] = One(sig = t))'
    BY <1>3 DEF Kept, Keywords, TypeSpecifiers, Signs
  <2>3. \A t \in UserTypes : (counts[t] = One(usertype = t))'
    BY <1>2, <1>3 DEF Kept, Keywords, TypeSpecifiers, UserTypes, One
  <2>4. \A t \in StorageClasses : (counts[t] = One(sclass = t))'
    BY <1>3 DEF Kept, Keywords, StorageClasses
  <2>5. /\ (counts["short"] = One(size = "short"))'
        /\ (counts["long"] = IF size = "llong" THEN 2 ELSE One(size = "long"))'
    BY <1>3 DEF Kept, Keywords, TypeSpecifiers
  <2>6. QED
    BY <2>1, <2>2, <2>3, <2>4, <2>5 DEF Counted
<1>6. status' # "rejected" => ~Clash(kind', size', sig', usertype')
  OBVIOUS
<1>7. RejectionIsRight'
  <2> SUFFICES ASSUME Clash(kind', size', sig', usertype'), NEW c \in CTypes, Completes(counts', c)
               PROVE  "typedefAsName" \in ShapesOf(counts')
    BY DEF RejectionIsRight, SpecShapes
  <2>1. AtLeast'
    BY <1>5 DEF AtLeast, Counted, One
  <2>2. QED
    BY <1>4, <2>1, ClashNow
<1>8. QED
  BY <1>4, <1>5, <1>6, <1>7 DEF IInv

-----------------------------------------------------------------------------
(* Sema's stacks *)

\* What a step does to Sema's stacks.
LEMMA SemaStays ==
  ASSUME SemaOK, UNCHANGED semaVars
  PROVE  SemaOK' /\ Len(modes') = Len(modes) /\ Len(envs') = Len(envs)
BY DEF SemaOK, ModesOK, EnvsOK, IsSeq, semaVars

\* SetMode,
LEMMA ModeSet ==
  ASSUME ModesOK, SetMode("Skip")
  PROVE  ModesOK' /\ Len(modes') = Len(modes) + 1
<1>1. /\ modes' \in Seq({"Normal", "Skip"}) /\ Len(modes') = Len(modes) + 1 /\ modes' # <<>>
      /\ \A i \in 1 .. Len(modes) : modes'[i] = modes[i]
  BY AppendParts, PushTop DEF ModesOK, SetMode
<1>2. 1 \in 1 .. Len(modes)
  BY DEF ModesOK
<1>3. QED
  BY <1>1, <1>2 DEF ModesOK

\* UnSetMode of a mode that is not the first,
LEMMA ModeUnset ==
  ASSUME ModesOK, Len(modes) - 1 >= 1, UnSetMode
  PROVE  ModesOK' /\ Len(modes') = Len(modes) - 1
<1>1. /\ modes' \in Seq({"Normal", "Skip"}) /\ Len(modes') = Len(modes) - 1
      /\ \A i \in 1 .. Len(modes) - 1 : modes'[i] = modes[i]
  BY FrontType DEF ModesOK, UnSetMode
<1>2. 1 \in 1 .. Len(modes) - 1 /\ Len(modes) \in Nat
  BY DEF ModesOK
<1>3. modes' # <<>>
  BY <1>1, <1>2
<1>4. QED
  BY <1>1, <1>2, <1>3 DEF ModesOK

\* a declaration, which opens no scope,
LEMMA DeclareLen ==
  ASSUME NEW s, NEW mode, NEW name, NEW symbol, IsSeq(s), s # <<>>
  PROVE  LET d == Declare(mode, s, name, symbol)
         IN  IsSeq(d) /\ d # <<>> /\ Len(d) = Len(s)
<1>1. PICK x : x = s[Len(s)] @@ (name :> symbol)
  OBVIOUS
<1>2. PICK d : d = [s EXCEPT ![Len(s)] = x]
  OBVIOUS
<1>3. s \in Seq(Range(s) \cup {x})
  BY DEF IsSeq
<1>4. d \in Seq(Range(s) \cup {x}) /\ Len(d) = Len(s)
  BY <1>2, <1>3, ExceptSeq
<1>5. IsSeq(d)
  BY <1>4, AnySeq
<1>6. d # <<>>
  BY <1>4, <1>3
<1>7. Declare(mode, s, name, symbol) = d \/ Declare(mode, s, name, symbol) = s
  BY <1>1, <1>2, Zenon DEF Declare
<1>8. QED
  BY <1>4, <1>5, <1>6, <1>7, ZenonT(60)

\* EnterScope
LEMMA EnvPushed ==
  ASSUME NEW s, IsSeq(s), s # <<>>, envs' = Append(s, EmptyEnv)
  PROVE  EnvsOK' /\ Len(envs') = Len(s) + 1
<1>1. PICK x : x = EmptyEnv
  OBVIOUS
<1>2. s \in Seq(Range(s) \cup {x})
  BY DEF IsSeq
<1>3. envs' \in Seq(Range(s) \cup {x}) /\ Len(envs') = Len(s) + 1 /\ envs' # <<>>
  BY <1>1, <1>2, AppendParts, PushTop
<1>4. IsSeq(envs')
  BY <1>3, AnySeq
<1>5. QED
  BY <1>3, <1>4 DEF EnvsOK, IsSeq

\* and ExitScope of a scope that is not the file's.
LEMMA EnvPopped ==
  ASSUME EnvsOK, Len(envs) - 1 >= 1
  PROVE  IsSeq(Front(envs)) /\ Front(envs) # <<>> /\ Len(Front(envs)) = Len(envs) - 1
<1>1. Front(envs) \in Seq(Range(envs)) /\ Len(Front(envs)) = Len(envs) - 1
  BY FrontType DEF EnvsOK, IsSeq
<1>2. PICK f : f = Front(envs)
  OBVIOUS
<1>3. IsSeq(f) /\ Len(f) = Len(envs) - 1 /\ f # <<>>
  BY <1>1, <1>2, AnySeq
<1>4. QED
  BY <1>2, <1>3

-----------------------------------------------------------------------------
(* The frames of the parser *)

\* The only places where a frame may have a mark.
Marked == {"ParseProgram", "AddDeclarator"} \cup Begins \cup Scopes

\* The innermost frame has the locals of its place,
LEMMA TopIsOK ==
  ASSUME DInv
  PROVE  FrameOK(Frame) /\ Calls(control)
<1>1. Calls(control)
  BY DEF DInv, Stacked, Balanced
<1>2. QED
  BY <1>1, FramePlaces DEF Frame

\* and no mark elsewhere.
LEMMA PlainTop ==
  ASSUME DInv, Frame.at \notin Marked
  PROVE  Plain(Frame)
<1>1. FrameOK(Frame)
  BY TopIsOK
<1>2. QED
  BY <1>1 DEF Plain, Skips, Marked

\* The frames that the actions write down.
LEMMA NewFrames ==
  ASSUME NEW x, NEW y, NEW z
  PROVE  /\ Plain(ParseDeclSpecFrame) /\ Plain(DeclaratorFrame(x)) /\ Plain(SuffixFrame(x))
         /\ Plain([at |-> "AddExternal"]) /\ Plain([at |-> "ParseFuncDecl"]) /\ Plain([at |-> "ParseDeclStmt"])
         /\ Plain([at |-> "Declarators", base |-> x, nodes |-> y, typedef |-> z])
         /\ Kept(x) => Plain([at |-> "Record", locals |-> x])
         /\ Plain([at |-> "Close"]) /\ Plain([at |-> "Parenthesis"])
         /\ Plain([at |-> "Variable", name |-> x]) /\ Plain([at |-> "Initializer", node |-> x])
         /\ Plain([at |-> "Array", dimension |-> x])
         /\ Plain([at |-> "Params", base |-> x, params |-> y])
         /\ Plain([at |-> "ParamDeclarator"])
BY DEF Plain, FrameOK, Skips, Begins, Scopes, ParseDeclSpecFrame, DeclaratorFrame, SuffixFrame

\* A frame that goes on at another place, with a list changed or not.
LEMMA GoesTo ==
  ASSUME NEW fr, NEW a, NEW v, "at" \in DOMAIN fr
  PROVE  /\ LET g == [fr EXCEPT !.at = a]
            IN  DOMAIN g = DOMAIN fr /\ g.at = a /\ \A x \in DOMAIN fr : x # "at" => g[x] = fr[x]
         /\ LET g == [fr EXCEPT !.at = a, !.nodes = v]
            IN  DOMAIN g = DOMAIN fr /\ g.at = a /\ \A x \in DOMAIN fr : x \notin {"at", "nodes"} => g[x] = fr[x]
         /\ LET g == [fr EXCEPT !.at = a, !.params = v]
            IN  DOMAIN g = DOMAIN fr /\ g.at = a
         /\ LET g == [fr EXCEPT !.at = a, !.members = v]
            IN  DOMAIN g = DOMAIN fr /\ g.at = a /\ \A x \in DOMAIN fr : x \notin {"at", "members"} => g[x] = fr[x]
         /\ LET g == [fr EXCEPT !.arrays = v]
            IN  DOMAIN g = DOMAIN fr /\ g.at = fr.at
OBVIOUS

\* The places to which a frame goes on without a mark.
PlainPlaces == {"InitValue", "NextParam", "EndParams", "AddParam", "Params"}

\* Going on to one of them.
LEMMA PlainGoesTo ==
  ASSUME NEW fr, NEW a \in PlainPlaces, NEW v, FrameOK(fr)
  PROVE  Plain([fr EXCEPT !.at = a]) /\ Plain([fr EXCEPT !.at = a, !.params = v])
<1>1. PICK g : g = [fr EXCEPT !.at = a]
  OBVIOUS
<1>2. PICK h : h = [fr EXCEPT !.at = a, !.params = v]
  OBVIOUS
<1>3. "at" \in DOMAIN g /\ "at" \in DOMAIN h /\ g.at = a /\ h.at = a
  BY <1>1, <1>2, GoesTo DEF FrameOK
<1>4. Plain(g) /\ Plain(h)
  BY <1>3 DEF Plain, FrameOK, Skips, Begins, Scopes, PlainPlaces
<1>5. QED
  BY <1>1, <1>2, <1>4

-----------------------------------------------------------------------------
(* Steps without a mark *)

\* The lexer when no token is consumed
LEMMA LexerStays ==
  ASSUME LexerOK, UNCHANGED lexerVars, text' = text
  PROVE  LexerOK' /\ saved' = saved
BY DEF LexerOK, OneAhead, After, lexerVars

\* and when one is.
LEMMA LexerAdvances ==
  ASSUME LexerOK, tok' = lexed, lexed' = After(lexed), text' = text
  PROVE  LexerOK'
BY DEF LexerOK, OneAhead, After

\* A step of a frame without a mark keeps the invariant,
LEMMA PlainAction ==
  ASSUME DInv, NEW t, Plain(Frame), PlainSeq(t), control' = Front(control) \o t, text' = text,
         Advance \/ UNCHANGED lexerVars, UNCHANGED semaVars, StatusOK'
  PROVE  DInv'
<1>1. LexerOK' /\ saved' = saved
  BY LexerStays, LexerAdvances DEF DInv, Advance
<1>2. SemaOK' /\ Len(modes') = Len(modes) /\ Len(envs') = Len(envs)
  BY SemaStays DEF DInv
<1>3. Stacked'
  BY <1>1, <1>2, PlainStep
<1>4. QED
  BY <1>1, <1>2, <1>3 DEF DInv

\* also one that returns
LEMMA FrontIsReplaced ==
  ASSUME DInv
  PROVE  Front(control) = Front(control) \o <<>>
BY TopIsOK, Removed DEF Calls

\* or calls,
LEMMA JustKeeps ==
  ASSUME DInv, NEW t, Plain(Frame), PlainSeq(t), Just(t) \/ ConsumeAnd(t)
  PROVE  DInv'
<1>1. /\ control' = Front(control) \o t /\ text' = text
      /\ Advance \/ UNCHANGED lexerVars
      /\ UNCHANGED semaVars /\ UNCHANGED specVars /\ outcome' = outcome
  BY DEF Just, ConsumeAnd, Continue, rest
<1>2. StatusOK'
  BY <1>1, StatusStays DEF DInv
<1>3. QED
  BY <1>1, <1>2, PlainAction

\* and what it returns does not matter.
LEMMA ReturnKeeps ==
  ASSUME DInv, NEW v, Plain(Frame), JustReturn(v) \/ ConsumeAndReturn(v)
  PROVE  DInv'
<1>1. /\ control' = Front(control) /\ text' = text
      /\ Advance \/ UNCHANGED lexerVars
      /\ UNCHANGED semaVars /\ UNCHANGED specVars /\ outcome' = outcome
  BY DEF JustReturn, ConsumeAndReturn, Return, rest
<1>2. StatusOK'
  BY <1>1, StatusStays DEF DInv
<1>3. control' = Front(control) \o <<>>
  BY <1>1, FrontIsReplaced
<1>4. PlainSeq(<<>>)
  BY PlainFew
<1>5. QED
  BY <1>1, <1>2, <1>3, <1>4, PlainAction

\* A parser that stops keeps the invariant,
LEMMA StopKeeps ==
  ASSUME DInv, NEW how, how # "parsing", Stop(how)
  PROVE  DInv'
<1>1. /\ text' = text /\ UNCHANGED lexerVars /\ UNCHANGED semaVars /\ control' = control
      /\ UNCHANGED specVars /\ outcome' # "parsing"
  BY DEF Stop
<1>2. LexerOK' /\ saved' = saved
  BY <1>1, LexerStays DEF DInv
<1>3. SemaOK' /\ Len(modes') = Len(modes) /\ Len(envs') = Len(envs)
  BY <1>1, SemaStays DEF DInv
<1>4. StatusOK'
  BY <1>1, StatusStays DEF DInv
<1>5. Balanced(control', saved', Len(modes) - 1, Len(envs) - 1)
  BY <1>1, <1>2 DEF DInv, Stacked
<1>6. Stacked'
  BY <1>1, <1>3, <1>5, NextStacked
<1>7. QED
  BY <1>2, <1>3, <1>4, <1>6 DEF DInv

\* as after a diagnostic.
LEMMA ReportKeeps ==
  ASSUME DInv, Report
  PROVE  DInv'
BY StopKeeps DEF Report

\* Expect consumes the token or stops.
LEMMA ExpectKeeps ==
  ASSUME DInv, NEW token, NEW t, Plain(Frame), PlainSeq(t), Expect(token, t)
  PROVE  DInv'
BY JustKeeps, ReportKeeps DEF Expect

-----------------------------------------------------------------------------
(* The actions *)

\* `*`: the declarator goes on with another type.
LEMMA StarKeeps ==
  ASSUME DInv, Star
  PROVE  DInv'
<1>1. Plain(Frame)
  BY PlainTop DEF Star, At, Marked, Begins, Scopes
<1>2. PlainSeq(<<DeclaratorFrame(Pointer(Frame.base))>>)
  BY NewFrames, PlainFew
<1>3. QED
  BY <1>1, <1>2, JustKeeps DEF Star

\* A declarator is read after `(`, to be read again: its suffix is known then.
LEMMA ParenthesisKeeps ==
  ASSUME DInv, Parenthesis
  PROVE  DInv'
<1>1. Plain(Frame)
  BY PlainTop DEF Parenthesis, At, Marked, Begins, Scopes
<1>2. PlainSeq(<<[at |-> "Close"], DeclaratorFrame(ret.type)>>)
  BY NewFrames, PlainFew
<1>3. QED
  BY <1>1, <1>2, ExpectKeeps DEF Parenthesis

\* `)` behind a parenthesised declarator.
LEMMA CloseKeeps ==
  ASSUME DInv, Close
  PROVE  DInv'
<1>1. Plain(Frame)
  BY PlainTop DEF Close, At, Marked, Begins, Scopes
<1>2. PlainSeq(<<[at |-> "Initializer", node |-> ret], SuffixFrame(Basic("Int"))>>)
  BY NewFrames, PlainFew
<1>3. QED
  BY <1>1, <1>2, ExpectKeeps DEF Close

\* The name of a declarator.
LEMMA IdentifierKeeps ==
  ASSUME DInv, Identifier
  PROVE  DInv'
<1>1. Plain(Frame)
  BY PlainTop DEF Identifier, At, Marked, Begins, Scopes
<1>2. PlainSeq(<<[at |-> "Variable", name |-> Tok], SuffixFrame(Frame.base)>>)
  BY NewFrames, PlainFew
<1>3. QED
  BY <1>1, <1>2, JustKeeps DEF Identifier

\* `(` of a parameter list.
LEMMA FuncSuffixKeeps ==
  ASSUME DInv, FuncSuffix
  PROVE  DInv'
<1>1. Plain(Frame)
  BY PlainTop DEF FuncSuffix, At, Marked, Begins, Scopes
<1>2. PlainSeq(<<[at |-> "Params", base |-> Frame.base, params |-> <<>>]>>)
  BY NewFrames, PlainFew
<1>3. QED
  BY <1>1, <1>2, JustKeeps DEF FuncSuffix

\* The declarator of a parameter.
LEMMA ParamDeclaratorKeeps ==
  ASSUME DInv, ParamDeclarator
  PROVE  DInv'
<1>1. Plain(Frame)
  BY PlainTop DEF ParamDeclarator, At, Marked, Begins, Scopes
<1>2. PlainSeq(<<DeclaratorFrame(ret.type)>>)
  BY NewFrames, PlainFew
<1>3. QED
  BY <1>1, <1>2, JustKeeps DEF ParamDeclarator

\* A declarator without a suffix.
LEMMA NoSuffixKeeps ==
  ASSUME DInv, NoSuffix
  PROVE  DInv'
<1>1. Plain(Frame)
  BY PlainTop DEF NoSuffix, At, Marked, Begins, Scopes
<1>2. QED
  BY <1>1, ReturnKeeps DEF NoSuffix

\* The type of an array, when that of its elements is known.
LEMMA MakeArrayKeeps ==
  ASSUME DInv, MakeArray
  PROVE  DInv'
<1>1. Plain(Frame)
  BY PlainTop DEF MakeArray, At, Marked, Begins, Scopes
<1>2. QED
  BY <1>1, ReturnKeeps DEF MakeArray

\* No declarator where one must be: the parser stops.
LEMMA NoDeclaratorKeeps ==
  ASSUME DInv, NoDeclarator
  PROVE  DInv'
BY ReportKeeps DEF NoDeclarator

\* The end of the program.
LEMMA EndProgramKeeps ==
  ASSUME DInv, EndProgram
  PROVE  DInv'
<1>1. Stop("accepted") /\ "accepted" # "parsing"
  BY DEF EndProgram
<1>2. QED
  BY <1>1, StopKeeps

\* The text ends in specifiers: the parser stops.
LEMMA EndOfInputKeeps ==
  ASSUME DInv, EndOfInput
  PROVE  DInv'
<1>1. PICK how : how = (IF NothingRead THEN "rejected" ELSE "crashed")
  OBVIOUS
<1>2. Stop(how) /\ how # "parsing"
  BY <1>1 DEF EndOfInput
<1>3. QED
  BY <1>2, StopKeeps

\* `=` or no initialiser.
LEMMA InitializerKeeps ==
  ASSUME DInv, Initializer
  PROVE  DInv'
<1>1. Plain(Frame) /\ FrameOK(Frame)
  BY TopIsOK, PlainTop DEF Initializer, At, Marked, Begins, Scopes
<1>2. PlainSeq(<<[Frame EXCEPT !.at = "InitValue"]>>)
  BY <1>1, PlainGoesTo, PlainFew DEF PlainPlaces
<1>3. QED
  BY <1>1, <1>2, ReturnKeeps, JustKeeps DEF Initializer

\* The value behind it.
LEMMA InitValueKeeps ==
  ASSUME DInv, InitValue
  PROVE  DInv'
<1>1. Plain(Frame) /\ FrameOK(Frame)
  BY TopIsOK, PlainTop DEF InitValue, At, Marked, Begins, Scopes
<1>2. QED
  BY <1>1, ReturnKeeps, ReportKeeps DEF InitValue

\* The first parameter or none.
LEMMA ParamsKeeps ==
  ASSUME DInv, Params
  PROVE  DInv'
<1>1. Plain(Frame) /\ FrameOK(Frame)
  BY TopIsOK, PlainTop DEF Params, At, Marked, Begins, Scopes
<1>2. PlainSeq(<<[Frame EXCEPT !.at = "NextParam"]>>)
  BY <1>1, PlainGoesTo, PlainFew DEF PlainPlaces
<1>3. QED
  BY <1>1, <1>2, JustKeeps DEF Params

\* `...` or `void`.
LEMMA LastParamKeeps ==
  ASSUME DInv, LastParam
  PROVE  DInv'
<1>1. Plain(Frame) /\ FrameOK(Frame)
  BY TopIsOK, PlainTop DEF LastParam, At, Marked, Begins, Scopes
<1>2. PICK v : v = IF Tok = "void" THEN Frame.params ELSE Append(Frame.params, Basic("..."))
  OBVIOUS
<1>3. ConsumeAnd(<<[Frame EXCEPT !.at = "EndParams", !.params = v]>>)
  BY <1>2 DEF LastParam
<1>4. PlainSeq(<<[Frame EXCEPT !.at = "EndParams", !.params = v]>>)
  BY <1>1, PlainGoesTo, PlainFew DEF PlainPlaces
<1>5. QED
  BY <1>1, <1>3, <1>4, JustKeeps

\* A parameter joins the list.
LEMMA AddParamKeeps ==
  ASSUME DInv, AddParam
  PROVE  DInv'
<1>1. Plain(Frame) /\ FrameOK(Frame)
  BY TopIsOK, PlainTop DEF AddParam, At, Marked, Begins, Scopes
<1>2. PICK v : v = Append(Frame.params, ParamType(ret.type))
  OBVIOUS
<1>3. Just(<<[Frame EXCEPT !.at = "Params", !.params = v]>>)
  BY <1>2 DEF AddParam
<1>4. PlainSeq(<<[Frame EXCEPT !.at = "Params", !.params = v]>>)
  BY <1>1, PlainGoesTo, PlainFew DEF PlainPlaces
<1>5. QED
  BY <1>1, <1>3, <1>4, JustKeeps

\* `)` of the parameter list.
LEMMA EndParamsKeeps ==
  ASSUME DInv, EndParams
  PROVE  DInv'
<1>1. Plain(Frame) /\ FrameOK(Frame)
  BY TopIsOK, PlainTop DEF EndParams, At, Marked, Begins, Scopes
<1>2. QED
  BY <1>1, ReturnKeeps, ReportKeeps DEF EndParams

\* An array suffix: two calls, the inner suffix and the array itself.
LEMMA ArraySuffixKeeps ==
  ASSUME DInv, ArraySuffix
  PROVE  DInv'
<1>1. Plain(Frame) /\ FrameOK(Frame)
  BY TopIsOK, PlainTop DEF ArraySuffix, At, Marked, Begins, Scopes
<1>2. PICK g : g = [Frame EXCEPT !.arrays = TRUE]
  OBVIOUS
<1>3. DOMAIN g = DOMAIN Frame /\ g.at = "DirectDeclaratorSuffix"
  BY <1>1, <1>2, GoesTo DEF FrameOK, ArraySuffix, At
<1>4. Plain(g)
  BY <1>1, <1>3 DEF Plain, FrameOK, Skips, Begins, Scopes
<1>5. PlainSeq(<<[at |-> "Array", dimension |-> Tok], g>>)
  BY <1>4, NewFrames, PlainFew
<1>6. ConsumeAnd(<<[at |-> "Array", dimension |-> Tok], g>>)
  BY <1>2 DEF ArraySuffix
<1>7. QED
  BY <1>1, <1>5, <1>6, JustKeeps

\* The next parameter: its specifiers and its declarator.
LEMMA NextParamKeeps ==
  ASSUME DInv, NextParam
  PROVE  DInv'
<1>1. Plain(Frame) /\ FrameOK(Frame)
  BY TopIsOK, PlainTop DEF NextParam, At, Marked, Begins, Scopes
<1>2. PICK g : g = [Frame EXCEPT !.at = "AddParam"]
  OBVIOUS
<1>3. Plain(g)
  BY <1>1, <1>2, PlainGoesTo DEF PlainPlaces
<1>4. PlainSeq(<<g, [at |-> "ParamDeclarator"], ParseDeclSpecFrame>>)
  BY <1>3, NewFrames, PlainFew
<1>5. /\ control' = Front(control) \o <<g, [at |-> "ParamDeclarator"], ParseDeclSpecFrame>>
      /\ text' = text /\ UNCHANGED lexerVars /\ UNCHANGED semaVars /\ BeginSpec
  BY <1>2 DEF NextParam, Continue
<1>6. StatusOK'
  BY <1>5, SpecBegins DEF StatusOK
<1>7. QED
  BY <1>1, <1>4, <1>5, <1>6, PlainAction

\* An external declaration joins the program.
LEMMA AddExternalKeeps ==
  ASSUME DInv, AddExternal
  PROVE  DInv'
<1>1. Plain(Frame) /\ FrameOK(Frame)
  BY TopIsOK, PlainTop DEF AddExternal, At, Marked, Begins, Scopes
<1>2. /\ control' = Front(control) \o <<>>
      /\ text' = text /\ UNCHANGED lexerVars /\ UNCHANGED semaVars
      /\ UNCHANGED specVars /\ outcome' = outcome
  BY DEF AddExternal, Continue
<1>3. StatusOK'
  BY <1>2, StatusStays DEF DInv
<1>4. PlainSeq(<<>>)
  BY PlainFew
<1>5. QED
  BY <1>1, <1>2, <1>3, <1>4, PlainAction

\* ParseDeclStmt behind its specifiers: none, or the first declarator.
LEMMA ParseDeclStmtKeeps ==
  ASSUME DInv, ParseDeclStmt
  PROVE  DInv'
<1>1. Plain(Frame) /\ FrameOK(Frame)
  BY TopIsOK, PlainTop DEF ParseDeclStmt, At, Marked, Begins, Scopes
<1>3. PICK g : g = [at |-> "Declarators", base |-> ret.type, nodes |-> <<>>, typedef |-> sclass = "typedef"]
  OBVIOUS
<1>4. PlainSeq(<<g>>)
  BY <1>3, NewFrames, PlainFew
<1>5. ConsumeAndReturn(Nodes(<<>>)) \/ Just(<<g>>)
  BY <1>3 DEF ParseDeclStmt
<1>6. QED
  BY <1>1, <1>4, <1>5, ReturnKeeps, JustKeeps

\* A specifier is read: KeywordKeeps is what ParseDeclSpec does with it.
LEMMA ReadSpecifierKeeps ==
  ASSUME DInv, ReadSpecifier
  PROVE  DInv'
<1>1. Specifier \in Keywords /\ ReadKeyword(Specifier) /\ IInv
  BY DEF ReadSpecifier, IsSpecifier, DInv, StatusOK
<1>2. IInv'
  BY <1>1, KeywordKeeps
<1>3. StatusOK'
  BY <1>2 DEF StatusOK, ReadSpecifier, Reading
<1>4. /\ text' = text /\ tok' = lexed /\ lexed' = After(lexed) /\ saved' = saved
      /\ UNCHANGED semaVars /\ control' = control
  BY DEF ReadSpecifier, Advance
<1>5. LexerOK'
  BY <1>4, LexerAdvances DEF DInv
<1>6. SemaOK' /\ Len(modes') = Len(modes) /\ Len(envs') = Len(envs)
  BY <1>4, SemaStays DEF DInv
<1>7. Balanced(control', saved', Len(modes) - 1, Len(envs) - 1)
  BY <1>4 DEF DInv, Stacked
<1>8. Stacked'
  BY <1>4, <1>6, <1>7, NextStacked
<1>9. QED
  BY <1>3, <1>5, <1>6, <1>8 DEF DInv

\* ParseDeclSpec returns the type that the enumerations name.
LEMMA EndSpecifiersKeeps ==
  ASSUME DInv, EndSpecifiers
  PROVE  DInv'
<1>1. Plain(Frame) /\ FrameOK(Frame)
  BY TopIsOK, PlainTop DEF EndSpecifiers, At, Marked, Begins, Scopes
<1>2. PICK reported \in BOOLEAN : EndSpec(reported)
  <2>1. (Mode = "Normal" /\ Tok \in Names /\ ~Declared(Tok)) \in BOOLEAN
    OBVIOUS
  <2>2. QED
    BY <2>1 DEF EndSpecifiers
<1>3. IInv'
  BY <1>2, SpecEnds DEF DInv, StatusOK
<1>4. StatusOK'
  BY <1>3 DEF StatusOK, EndSpecifiers, Reading
<1>5. /\ control' = Front(control) \o <<>>
      /\ text' = text /\ UNCHANGED lexerVars /\ UNCHANGED semaVars
  BY FrontIsReplaced DEF EndSpecifiers, Return
<1>6. PlainSeq(<<>>)
  BY PlainFew
<1>7. QED
  BY <1>1, <1>4, <1>5, <1>6, PlainAction

\* A record: the locals of ParseDeclSpec go to a frame.
LEMMA ParseStructOrUnionSpecKeeps ==
  ASSUME DInv, ParseStructOrUnionSpec
  PROVE  DInv'
<1>1. Plain(Frame) /\ FrameOK(Frame)
  BY TopIsOK, PlainTop DEF ParseStructOrUnionSpec, At, Marked, Begins, Scopes
<1>2. Kept(<<kind, size, sig, sclass, counts>>)
  BY LocalsAreKept DEF DInv, StatusOK, ParseStructOrUnionSpec, At
<1>3. PlainSeq(<<Frame, [at |-> "Record", locals |-> <<kind, size, sig, sclass, counts>>]>>)
  BY <1>1, <1>2, NewFrames, PlainFew, ZenonT(60)
<1>4. QED
  BY <1>1, <1>3, JustKeeps DEF ParseStructOrUnionSpec

\* A variable is declared in the innermost scope.
LEMMA SemaVariableDeclNodeKeeps ==
  ASSUME DInv, SemaVariableDeclNode
  PROVE  DInv'
<1>1. Plain(Frame) /\ FrameOK(Frame)
  BY TopIsOK, PlainTop DEF SemaVariableDeclNode, At, Marked, Begins, Scopes
<1>2. CASE Report
  BY <1>2, ReportKeeps
<1>3. CASE ~Report
  <2>1. PICK g : g = [at |-> "Initializer", node |-> Variable(Frame.name, ret.type)]
    OBVIOUS
  <2>2. PICK symbol : symbol = Symbol("object", ret.type, FALSE)
    OBVIOUS
  <2>3. /\ envs' = Declare(Mode, envs, Frame.name, symbol) /\ control' = Front(control) \o <<g>>
        /\ UNCHANGED lexerVars /\ modes' = modes /\ UNCHANGED specVars /\ text' = text /\ outcome' = outcome
    BY <1>3, <2>1, <2>2 DEF SemaVariableDeclNode, Continue, rest
  <2>4. IsSeq(envs) /\ envs # <<>>
    BY DEF DInv, SemaOK, EnvsOK
  <2>5. EnvsOK' /\ Len(envs') = Len(envs)
    BY <2>3, <2>4, DeclareLen DEF EnvsOK, IsSeq
  <2>6. SemaOK' /\ Len(modes') = Len(modes)
    BY <2>3, <2>5 DEF DInv, SemaOK, ModesOK
  <2>7. LexerOK' /\ saved' = saved
    BY <2>3, LexerStays DEF DInv
  <2>8. PlainSeq(<<g>>)
    BY <2>1, NewFrames, PlainFew
  <2>9. Stacked'
    BY <1>1, <2>3, <2>5, <2>6, <2>7, <2>8, PlainStep
  <2>10. StatusOK'
    BY <2>3, StatusStays DEF DInv
  <2>11. QED
    BY <2>6, <2>7, <2>9, <2>10 DEF DInv
<1>4. QED
  BY <1>2, <1>3

\* The next external declaration is read ahead in a call of ParseProgram.
LEMMA ParseProgramKeeps ==
  ASSUME DInv, ParseProgram
  PROVE  DInv'
<1>1. FrameOK(Frame) /\ Calls(control) /\ Frame.at = "ParseProgram"
  BY TopIsOK DEF ParseProgram, At
<1>2. PICK b : b = [at |-> "ReadAhead", begin |-> tok]
  OBVIOUS
<1>3. PICK d : d = ParseDeclSpecFrame
  OBVIOUS
<1>4. FrameOK(b) /\ b.at = "ReadAhead" /\ b.begin = tok
  BY <1>2 DEF FrameOK, DInv, LexerOK
<1>5. Plain(d)
  BY <1>3, NewFrames
<1> DEFINE t == <<Frame, b, d>>
<1>6. t = <<Frame, b, d>>
  OBVIOUS
<1>7. IsSeq(t) /\ DOMAIN t = {1, 2, 3} /\ t # <<>> /\ t[1] = Frame /\ t[2] = b /\ t[3] = d
  <2>1. IsSeq(t)
    BY FewFrames, ZenonT(60)
  <2>2. DOMAIN t = {1, 2, 3} /\ t # <<>> /\ t[1] = Frame /\ t[2] = b /\ t[3] = d
    OBVIOUS
  <2>3. QED
    BY <2>1, <2>2
<1> HIDE DEF t
<1>8. Begun(t) = {2} /\ Skipping(t) = {2} /\ Opened(t) = {}
  BY <1>1, <1>4, <1>5, <1>7 DEF Begun, Skipping, Opened, Plain, Skips, Begins, Scopes
<1>9. Fits(t, control)
  <2>1. \A j \in DOMAIN t : FrameOK(t[j]) /\ (t[j].at = "ParseProgram" <=> j = 1)
    BY <1>1, <1>4, <1>5, <1>7 DEF Plain
  <2>2. Last(control).at = "ParseProgram"
    BY <1>1 DEF Frame
  <2>3. QED
    BY <1>7, <2>1, <2>2 DEF Fits
<1>10. /\ control' = Front(control) \o t /\ text' = text /\ tok' = tok /\ lexed' = lexed /\ envs' = envs
       /\ saved' = Append(saved, lexed) /\ SetMode("Skip") /\ BeginSpec
  BY <1>2, <1>3, <1>6 DEF ParseProgram, Continue, SaveState
<1>11. ModesOK' /\ Len(modes') = Len(modes) + 1
  BY <1>10, ModeSet DEF DInv, SemaOK
<1>12. SemaOK' /\ Len(envs') = Len(envs)
  BY <1>10, <1>11 DEF DInv, SemaOK, EnvsOK, IsSeq
<1>13. LexerOK'
  BY <1>10 DEF DInv, LexerOK, OneAhead, After
<1>14. StatusOK'
  BY <1>10, SpecBegins DEF StatusOK
<1>15. Frame.at \notin Scopes /\ ~Skips(Frame) /\ t[2].begin = tok /\ 2 \in Nat /\ 2 >= 1
  BY <1>1, <1>4, <1>7 DEF Scopes, Skips, Begins
<1>16. Stacked'
  BY <1>8, <1>9, <1>10, <1>11, <1>12, <1>15, ReadStep
<1>17. QED
  BY <1>12, <1>13, <1>14, <1>16 DEF DInv

\* IsFuncDecl behind the specifiers: the declarator, still reading ahead.
LEMMA ReadAheadKeeps ==
  ASSUME DInv, ReadAhead
  PROVE  DInv'
<1>1. FrameOK(Frame) /\ Frame.at = "ReadAhead"
  BY TopIsOK DEF ReadAhead, At
<1>2. PICK g : g = [Frame EXCEPT !.at = "IsFuncDecl"]
  OBVIOUS
<1>3. "begin" \in DOMAIN Frame /\ Frame.begin \in Nat /\ "at" \in DOMAIN Frame
  BY <1>1 DEF FrameOK, Begins
<1>4. DOMAIN g = DOMAIN Frame /\ g.at = "IsFuncDecl" /\ g.begin = Frame.begin
  BY <1>2, <1>3, GoesTo
<1>5. FrameOK(g)
  BY <1>3, <1>4 DEF FrameOK
<1>6. PICK d : d = DeclaratorFrame(ret.type)
  OBVIOUS
<1>8. \/ control' = Front(control) \o <<g>>
      \/ control' = Front(control) \o <<g, d>>
  <2>1. <<g>> \o <<>> = <<g>> /\ <<g>> \o <<d>> = <<g, d>>
    BY FewFrames
  <2>2. CASE Tok = ";"
    BY <1>2, <2>1, <2>2 DEF ReadAhead, Just, Continue
  <2>3. CASE Tok # ";"
    BY <1>2, <1>6, <2>1, <2>3 DEF ReadAhead, Just, Continue
  <2>4. QED
    BY <2>2, <2>3
<1>9. Plain(d)
  BY <1>6, NewFrames
<1>10. Headed(<<g>>, g) /\ Headed(<<g, d>>, g)
  BY <1>4, <1>5, <1>9, HeadedFew
<1>11. /\ text' = text /\ UNCHANGED lexerVars /\ UNCHANGED semaVars /\ UNCHANGED specVars /\ outcome' = outcome
  BY DEF ReadAhead, Just, rest
<1>12. StatusOK'
  BY <1>11, StatusStays DEF DInv
<1>13. LexerOK' /\ saved' = saved
  BY <1>11, LexerStays DEF DInv
<1>14. SemaOK' /\ Len(modes') = Len(modes) /\ Len(envs') = Len(envs)
  BY <1>11, SemaStays DEF DInv
<1>15. /\ Frame.at # "ParseProgram" /\ Frame.at \in Begins /\ g.at \in Begins
       /\ Skips(g) /\ Skips(Frame) /\ g.at \notin Scopes /\ Frame.at \notin Scopes
  BY <1>1, <1>4 DEF Begins, Scopes, Skips
<1>16. Stacked'
  BY <1>4, <1>8, <1>10, <1>11, <1>13, <1>14, <1>15, SameStep
<1>17. QED
  BY <1>12, <1>13, <1>14, <1>16 DEF DInv

\* What was read ahead is put back: the place behind the token that was current.
LEMMA GoesBackKeeps ==
  ASSUME DInv, NEW t, Frame.at \in Begins, PlainSeq(t), control' = Front(control) \o t, text' = text,
         RestoreState(Frame.begin), UnSetMode, envs' = envs, StatusOK'
  PROVE  DInv'
<1>1. saved' = Front(saved) /\ lexed' = Last(saved) /\ tok' = Frame.begin
  BY DEF RestoreState
<1>2. ModesOK /\ EnvsOK
  BY DEF DInv, SemaOK
<1>3. Len(envs') = Len(envs) /\ EnvsOK'
  BY <1>2 DEF EnvsOK, IsSeq
<1>4. Len(modes) - 1 >= 1
  <2>1. Calls(control) /\ Balanced(control, saved, Len(modes) - 1, Len(envs) - 1)
    BY DEF DInv, Stacked, Balanced
  <2>2. Len(control) \in Skipping(control)
    BY <2>1, FramePlaces DEF Skips, Frame
  <2>3. Skipping(control) \in SUBSET Nat /\ \A i \in Skipping(control) : i <= Len(control)
    BY <2>1, <2>2, FramePlaces, ShiftOut
  <2>4. QED
    BY <2>1, <2>2, <2>3, NumberPop DEF Balanced
<1>5. ModesOK' /\ Len(modes') = Len(modes) - 1
  BY <1>2, <1>4, ModeUnset
<1>6. Stacked' /\ Last(saved) = After(Frame.begin) /\ Frame.begin \in Nat
  BY <1>1, <1>3, <1>5, BackStep
<1>7. LexerOK'
  BY <1>1, <1>6 DEF LexerOK, OneAhead, After
<1>8. QED
  BY <1>3, <1>5, <1>6, <1>7 DEF DInv, SemaOK

\* IsFuncDecl ends, and ParseProgram goes back to the first token.
LEMMA IsFuncDeclKeeps ==
  ASSUME DInv, IsFuncDecl
  PROVE  DInv'
<1>1. Frame.at \in Begins
  BY DEF IsFuncDecl, At, Begins
<1>2. PICK parse : parse = IF IsFuncTypeNode(ret.type) /\ ret.name # NoName THEN "ParseFuncDecl" ELSE "ParseDeclStmt"
  OBVIOUS
<1>3. Plain([at |-> parse])
  BY <1>2, NewFrames
<1>4. PlainSeq(<<[at |-> "AddExternal"], [at |-> parse], ParseDeclSpecFrame>>)
  BY <1>3, NewFrames, PlainFew
<1>5. /\ control' = Front(control) \o <<[at |-> "AddExternal"], [at |-> parse], ParseDeclSpecFrame>>
      /\ text' = text /\ RestoreState(Frame.begin) /\ UnSetMode /\ envs' = envs /\ BeginSpec
  BY <1>2 DEF IsFuncDecl, Continue
<1>6. StatusOK'
  BY <1>5, SpecBegins DEF StatusOK
<1>7. QED
  BY <1>1, <1>4, <1>5, <1>6, GoesBackKeeps

\* DirectDeclarator goes back to the parenthesis.
LEMMA ReopenKeeps ==
  ASSUME DInv, Reopen
  PROVE  DInv'
<1>1. Frame.at \in Begins
  BY DEF Reopen, At, Begins
<1>2. PlainSeq(<<[at |-> "Parenthesis"]>>)
  BY NewFrames, PlainFew
<1>3. /\ control' = Front(control) \o <<[at |-> "Parenthesis"]>>
      /\ text' = text /\ RestoreState(Frame.begin) /\ UnSetMode /\ envs' = envs
      /\ UNCHANGED specVars /\ outcome' = outcome
  BY DEF Reopen, Continue, rest
<1>4. StatusOK'
  BY <1>3, StatusStays DEF DInv
<1>5. QED
  BY <1>1, <1>2, <1>3, <1>4, GoesBackKeeps

\* `(`: DirectDeclarator reads the declarator behind it ahead.
LEMMA OpenKeeps ==
  ASSUME DInv, Open
  PROVE  DInv'
<1>1. Plain(Frame)
  BY PlainTop DEF Open, At, Marked, Begins, Scopes
<1>2. PICK a : a = [at |-> "Skipped", base |-> Frame.base, begin |-> tok]
  OBVIOUS
<1>3. PICK d : d = DeclaratorFrame(Basic("Int"))
  OBVIOUS
<1>4. FrameOK(a) /\ a.at = "Skipped" /\ a.begin = tok
  BY <1>2 DEF FrameOK, DInv, LexerOK
<1>5. Plain(d)
  BY <1>3, NewFrames
<1>6. Headed(<<a, d>>, a)
  BY <1>4, <1>5, HeadedFew
<1>7. PICK t : t = <<a, d>>
  OBVIOUS
<1>8. /\ control' = Front(control) \o t /\ text' = text /\ tok' = lexed /\ lexed' = After(lexed) /\ envs' = envs
      /\ saved' = Append(saved, lexed) /\ SetMode("Skip") /\ UNCHANGED specVars /\ outcome' = outcome
  BY <1>2, <1>3, <1>7 DEF Open, Continue, SaveState, rest
<1>9. Frame.at # "ParseProgram" /\ Frame.at \notin Scopes /\ ~Skips(Frame)
  BY <1>1 DEF Plain
<1>10. /\ Fits(t, control)
       /\ Begun(t) = IF a.at \in Begins THEN {1} ELSE {}
       /\ Skipping(t) = IF Skips(a) THEN {1} ELSE {}
       /\ Opened(t) = IF a.at \in Scopes THEN {1} ELSE {}
       /\ t[1] = a
  BY <1>6, <1>7, <1>9, HeadedMarks DEF Frame, Headed
<1>11. Begun(t) = {1} /\ Skipping(t) = {1} /\ Opened(t) = {} /\ t[1].begin = tok /\ 1 \in Nat /\ 1 >= 1
  BY <1>4, <1>10 DEF Skips, Begins, Scopes
<1>12. ModesOK' /\ Len(modes') = Len(modes) + 1
  BY <1>8, ModeSet DEF DInv, SemaOK
<1>13. SemaOK' /\ Len(envs') = Len(envs)
  BY <1>8, <1>12 DEF DInv, SemaOK, EnvsOK, IsSeq
<1>14. LexerOK'
  BY <1>8, LexerAdvances DEF DInv
<1>15. StatusOK'
  BY <1>8, StatusStays DEF DInv
<1>16. Stacked'
  BY <1>8, <1>9, <1>10, <1>11, <1>12, <1>13, ReadStep
<1>17. QED
  BY <1>13, <1>14, <1>15, <1>16 DEF DInv

\* The innermost frame goes on with its marks.
LEMMA SameKeeps ==
  ASSUME DInv, NEW t, NEW a, control' = Front(control) \o t, text' = text,
         Frame.at # "ParseProgram", Headed(t, a),
         a.at \in Begins <=> Frame.at \in Begins, Frame.at \in Begins => a.begin = Frame.begin,
         Skips(a) <=> Skips(Frame), a.at \in Scopes <=> Frame.at \in Scopes,
         Advance \/ UNCHANGED lexerVars, UNCHANGED semaVars, StatusOK'
  PROVE  DInv'
<1>1. LexerOK' /\ saved' = saved
  BY LexerStays, LexerAdvances DEF DInv, Advance
<1>2. SemaOK' /\ Len(modes') = Len(modes) /\ Len(envs') = Len(envs)
  BY SemaStays DEF DInv
<1>3. Stacked'
  BY <1>1, <1>2, SameStep
<1>4. QED
  BY <1>1, <1>2, <1>3 DEF DInv

\* The declarator was read ahead, the suffix is.
LEMMA SkippedKeeps ==
  ASSUME DInv, Skipped
  PROVE  DInv'
<1>1. FrameOK(Frame) /\ Frame.at = "Skipped"
  BY TopIsOK DEF Skipped, At
<1>2. PICK a : a = [at |-> "Reopen", begin |-> Frame.begin]
  OBVIOUS
<1>3. FrameOK(a) /\ a.at = "Reopen" /\ a.begin = Frame.begin
  BY <1>1, <1>2 DEF FrameOK, Begins
<1>4. PICK d : d = SuffixFrame(Frame.base)
  OBVIOUS
<1>5. Headed(<<a, d>>, a)
  BY <1>3, <1>4, NewFrames, HeadedFew
<1>6. CASE Report
  BY <1>6, ReportKeeps
<1>7. CASE ConsumeAnd(<<a, d>>)
  <2>1. /\ control' = Front(control) \o <<a, d>> /\ text' = text /\ Advance
        /\ UNCHANGED semaVars /\ UNCHANGED specVars /\ outcome' = outcome
    BY <1>7 DEF ConsumeAnd, Continue, rest
  <2>2. StatusOK'
    BY <2>1, StatusStays DEF DInv
  <2>3. /\ Frame.at # "ParseProgram" /\ Frame.at \in Begins /\ a.at \in Begins
        /\ Skips(a) /\ Skips(Frame) /\ a.at \notin Scopes /\ Frame.at \notin Scopes
    BY <1>1, <1>3 DEF Begins, Scopes, Skips
  <2>4. QED
    BY <1>3, <1>5, <2>1, <2>2, <2>3, SameKeeps
<1>8. QED
  BY <1>2, <1>4, <1>6, <1>7 DEF Skipped, Expect

\* The next member of a record, in its scope.
LEMMA ParseMemberKeeps ==
  ASSUME DInv, ParseMember
  PROVE  DInv'
<1>1. FrameOK(Frame) /\ Frame.at = "Members"
  BY TopIsOK DEF ParseMember, At
<1>2. PICK g : g = [Frame EXCEPT !.at = "AddMembers"]
  OBVIOUS
<1>3. "locals" \in DOMAIN Frame /\ Kept(Frame.locals) /\ "at" \in DOMAIN Frame
  BY <1>1 DEF FrameOK
<1>4. DOMAIN g = DOMAIN Frame /\ g.at = "AddMembers" /\ g.locals = Frame.locals
  BY <1>2, <1>3, GoesTo
<1>5. FrameOK(g)
  BY <1>3, <1>4 DEF FrameOK, Begins
<1>6. Headed(<<g, [at |-> "ParseDeclStmt"], ParseDeclSpecFrame>>, g)
  BY <1>4, <1>5, NewFrames, HeadedFew
<1>7. /\ control' = Front(control) \o <<g, [at |-> "ParseDeclStmt"], ParseDeclSpecFrame>>
      /\ text' = text /\ UNCHANGED lexerVars /\ UNCHANGED semaVars /\ BeginSpec
  BY <1>2 DEF ParseMember, Continue
<1>8. StatusOK'
  BY <1>7, SpecBegins DEF StatusOK
<1>9. /\ Frame.at # "ParseProgram" /\ Frame.at \notin Begins /\ g.at \notin Begins
      /\ ~Skips(g) /\ ~Skips(Frame) /\ g.at \in Scopes /\ Frame.at \in Scopes
  BY <1>1, <1>4 DEF Begins, Scopes, Skips
<1>10. QED
  BY <1>6, <1>7, <1>8, <1>9, SameKeeps

\* Members join the list.
LEMMA AddMembersKeeps ==
  ASSUME DInv, AddMembers
  PROVE  DInv'
<1>1. FrameOK(Frame) /\ Frame.at = "AddMembers"
  BY TopIsOK DEF AddMembers, At
<1>2. PICK v : v = Frame.members \o [i \in DOMAIN ret.nodes |-> ret.nodes[i].type]
  OBVIOUS
<1>3. PICK g : g = [Frame EXCEPT !.at = "Members", !.members = v]
  OBVIOUS
<1>4. "locals" \in DOMAIN Frame /\ Kept(Frame.locals) /\ "at" \in DOMAIN Frame
  BY SMTT(60), <1>1 DEF FrameOK
<1>5. DOMAIN g = DOMAIN Frame /\ g.at = "Members" /\ g.locals = Frame.locals
  BY <1>3, <1>4, GoesTo
<1>6. FrameOK(g)
  BY <1>4, <1>5 DEF FrameOK, Begins
<1>7. Headed(<<g>>, g)
  BY <1>5, <1>6, HeadedFew
<1>8. CASE Stop("crashed")
  <2>1. "crashed" # "parsing"
    OBVIOUS
  <2>2. QED
    BY <1>8, <2>1, StopKeeps
<1>9. CASE Just(<<g>>)
  <2>1. /\ control' = Front(control) \o <<g>> /\ text' = text /\ UNCHANGED lexerVars
        /\ UNCHANGED semaVars /\ UNCHANGED specVars /\ outcome' = outcome
    BY <1>9 DEF Just, Continue, rest
  <2>2. StatusOK'
    BY <2>1, StatusStays DEF DInv
  <2>3. /\ Frame.at # "ParseProgram" /\ Frame.at \notin Begins /\ g.at \notin Begins
        /\ ~Skips(g) /\ ~Skips(Frame) /\ g.at \in Scopes /\ Frame.at \in Scopes
    BY <1>1, <1>5 DEF Begins, Scopes, Skips
  <2>4. QED
    BY <1>7, <2>1, <2>2, <2>3, SameKeeps
<1>10. QED
  BY <1>2, <1>3, <1>8, <1>9 DEF AddMembers

\* A step that opens a scope, after a declaration in the one around it or not,
LEMMA ScopeOpens ==
  ASSUME DInv, NEW t, NEW a, NEW s, control' = Front(control) \o t, text' = text,
         Plain(Frame), Headed(t, a), a.at \in Scopes, ~Skips(a),
         IsSeq(s), s # <<>>, Len(s) = Len(envs), envs' = Append(s, EmptyEnv), modes' = modes,
         Advance \/ UNCHANGED lexerVars, StatusOK'
  PROVE  DInv'
<1>1. LexerOK' /\ saved' = saved
  BY LexerStays, LexerAdvances DEF DInv, Advance
<1>2. EnvsOK' /\ Len(envs') = Len(envs) + 1
  BY EnvPushed
<1>3. SemaOK' /\ Len(modes') = Len(modes)
  BY <1>2 DEF DInv, SemaOK, ModesOK
<1>4. Stacked'
  BY <1>1, <1>2, <1>3, ScopeStep
<1>5. QED
  BY <1>1, <1>3, <1>4 DEF DInv

\* and one that closes it, with a declaration in the one around it or not.
LEMMA ScopeCloses ==
  ASSUME DInv, NEW name, NEW symbol, control' = Front(control) \o <<>>, text' = text,
         Frame.at \in Scopes,
         envs' = Front(envs) \/ envs' = Declare(Mode, Front(envs), name, symbol),
         modes' = modes, Advance, StatusOK'
  PROVE  DInv'
<1>1. LexerOK' /\ saved' = saved
  BY LexerAdvances DEF DInv, Advance
<1>2. Len(envs) - 1 >= 1
  <2>1. Calls(control) /\ Balanced(control, saved, Len(modes) - 1, Len(envs) - 1)
    BY DEF DInv, Stacked, Balanced
  <2>2. Len(control) \in Opened(control)
    BY <2>1, FramePlaces DEF Frame
  <2>3. Opened(control) \in SUBSET Nat /\ \A i \in Opened(control) : i <= Len(control)
    BY <2>1, <2>2, FramePlaces, ShiftOut
  <2>4. QED
    BY <2>1, <2>2, <2>3, NumberPop DEF Balanced
<1>3. PICK f : f = Front(envs)
  OBVIOUS
<1>4. IsSeq(f) /\ f # <<>> /\ Len(f) = Len(envs) - 1
  BY <1>2, <1>3, EnvPopped DEF DInv, SemaOK
<1>5. EnvsOK' /\ Len(envs') = Len(envs) - 1
  <2>1. CASE envs' = f
    BY <1>4, <2>1 DEF EnvsOK, IsSeq
  <2>2. CASE envs' = Declare(Mode, f, name, symbol)
    BY <1>4, <2>2, DeclareLen DEF EnvsOK, IsSeq
  <2>3. QED
    BY <1>3, <2>1, <2>2
<1>6. SemaOK' /\ Len(modes') = Len(modes)
  BY <1>5 DEF DInv, SemaOK, ModesOK
<1>7. Frame.at # "ParseProgram" /\ PlainSeq(<<>>)
  BY PlainFew DEF Scopes
<1>8. Stacked'
  BY <1>1, <1>5, <1>6, <1>7, ScopeEnd
<1>9. QED
  BY <1>1, <1>6, <1>8 DEF DInv

\* ParseFuncDecl behind its specifiers.
LEMMA ParseFuncDeclKeeps ==
  ASSUME DInv, ParseFuncDecl
  PROVE  DInv'
<1>1. Plain(Frame)
  BY PlainTop DEF ParseFuncDecl, At, Marked, Begins, Scopes
<1>2. PICK a : a = [at |-> "FuncDeclarator", typedef |-> sclass = "typedef"]
  OBVIOUS
<1>3. PICK d : d = DeclaratorFrame(ret.type)
  OBVIOUS
<1>4. FrameOK(a) /\ a.at = "FuncDeclarator"
  BY <1>2 DEF FrameOK, Begins
<1>5. Headed(<<a, d>>, a)
  BY <1>3, <1>4, NewFrames, HeadedFew
<1>6. /\ control' = Front(control) \o <<a, d>> /\ text' = text /\ UNCHANGED lexerVars
      /\ envs' = Append(envs, EmptyEnv) /\ modes' = modes /\ UNCHANGED specVars /\ outcome' = outcome
  BY <1>2, <1>3 DEF ParseFuncDecl, Continue, rest
<1>7. StatusOK'
  BY <1>6, StatusStays DEF DInv
<1>8. a.at \in Scopes /\ ~Skips(a) /\ IsSeq(envs) /\ envs # <<>>
  BY <1>4 DEF Scopes, Skips, Begins, DInv, SemaOK, EnvsOK
<1>9. QED
  BY <1>1, <1>5, <1>6, <1>7, <1>8, ScopeOpens

\* A typedef of a function: its name is declared.
LEMMA FuncTypedefKeeps ==
  ASSUME DInv, FuncTypedef
  PROVE  DInv'
<1>1. CASE Report
  BY <1>1, ReportKeeps
<1>2. CASE ~Report
  <2>1. PICK symbol : symbol = Symbol("typedef", ret.type, FALSE)
    OBVIOUS
  <2>2. /\ Advance /\ envs' = Declare(Mode, Front(envs), ret.name, symbol)
        /\ control' = Front(control) /\ modes' = modes /\ text' = text
        /\ UNCHANGED specVars /\ outcome' = outcome
    BY <1>2, <2>1 DEF FuncTypedef, Return, rest
  <2>3. StatusOK'
    BY <2>2, StatusStays DEF DInv
  <2>4. control' = Front(control) \o <<>>
    BY <2>2, FrontIsReplaced
  <2>5. Frame.at \in Scopes
    BY DEF FuncTypedef, At, Scopes
  <2>6. QED
    BY <2>2, <2>3, <2>4, <2>5, ScopeCloses
<1>3. QED
  BY <1>1, <1>2

\* A function and its body, or none, in the scope of its parameters.
LEMMA FuncDeclarationKeeps ==
  ASSUME DInv, FuncDeclaration
  PROVE  DInv'
<1>1. CASE Report
  BY <1>1, ReportKeeps
<1>2. CASE Stop("crashed")
  <2>1. "crashed" # "parsing"
    OBVIOUS
  <2>2. QED
    BY <1>2, <2>1, StopKeeps
<1>3. CASE ~Report /\ ~Stop("crashed")
  <2>1. PICK symbol : symbol = Symbol("object", ret.type, Tok = "{}")
    OBVIOUS
  <2>2. /\ Advance /\ envs' = Declare(Mode, Front(envs), ret.name, symbol)
        /\ control' = Front(control) /\ modes' = modes /\ text' = text
        /\ UNCHANGED specVars /\ outcome' = outcome
    BY <1>3, <2>1 DEF FuncDeclaration, Return, rest
  <2>3. StatusOK'
    BY <2>2, StatusStays DEF DInv
  <2>4. control' = Front(control) \o <<>>
    BY <2>2, FrontIsReplaced
  <2>5. Frame.at \in Scopes
    BY DEF FuncDeclaration, At, Scopes
  <2>6. QED
    BY <2>2, <2>3, <2>4, <2>5, ScopeCloses
<1>4. QED
  BY <1>1, <1>2, <1>3

\* `{` of a record opens a scope.
LEMMA OpenRecordKeeps ==
  ASSUME DInv, OpenRecord
  PROVE  DInv'
<1>1. Plain(Frame) /\ FrameOK(Frame) /\ Frame.at = "Record"
  BY TopIsOK, PlainTop DEF OpenRecord, At, Marked, Begins, Scopes
<1>2. CASE Report
  BY <1>2, ReportKeeps
<1>3. CASE ~Report
  <2>1. PICK a : a = [at |-> "Members", locals |-> Frame.locals, members |-> <<>>]
    OBVIOUS
  <2>2. FrameOK(a) /\ a.at = "Members"
    BY <1>1, <2>1 DEF FrameOK, Begins
  <2>3. Headed(<<a>>, a)
    BY <2>2, HeadedFew
  <2>4. PICK symbol : symbol = Symbol("tag", <<>>, FALSE)
    OBVIOUS
  <2>5. PICK s : s = Declare(Mode, envs, NoTag, symbol)
    OBVIOUS
  <2>6. IsSeq(s) /\ s # <<>> /\ Len(s) = Len(envs)
    BY <2>5, DeclareLen DEF DInv, SemaOK, EnvsOK
  <2>7. /\ control' = Front(control) \o <<a>> /\ text' = text /\ Advance
        /\ envs' = Append(s, EmptyEnv) /\ modes' = modes /\ UNCHANGED specVars /\ outcome' = outcome
    BY <1>3, <2>1, <2>4, <2>5 DEF OpenRecord, Continue, rest
  <2>8. StatusOK'
    BY <2>7, StatusStays DEF DInv
  <2>9. a.at \in Scopes /\ ~Skips(a)
    BY <2>2 DEF Scopes, Skips, Begins
  <2>10. QED
    BY <1>1, <2>3, <2>6, <2>7, <2>8, <2>9, ScopeOpens
<1>4. QED
  BY <1>2, <1>3

\* `}` closes it: ParseDeclSpec goes on with its locals.
LEMMA CloseRecordKeeps ==
  ASSUME DInv, CloseRecord
  PROVE  DInv'
<1>1. FrameOK(Frame) /\ Frame.at = "Members" /\ Frame.at \in Scopes
  BY TopIsOK DEF CloseRecord, At, Scopes
<1>2. PICK l : l = Frame.locals
  OBVIOUS
<1>3. Kept(l)
  BY <1>1, <1>2 DEF FrameOK
<1>4. /\ kind' = l[1] /\ size' = l[2] /\ sig' = l[3] /\ sclass' = l[4] /\ usertype' = "record"
      /\ counts' = [l[5] EXCEPT !["record"] = @ + 1]
      /\ status' = IF Clash(l[1], l[2], l[3], "record") THEN "rejected" ELSE "reading"
  BY <1>2 DEF CloseRecord
<1>5. IInv'
  BY <1>3, <1>4, RecordIsRead
<1>6. StatusOK'
  BY <1>5 DEF StatusOK, CloseRecord, Reading
<1>7. /\ control' = Front(control) \o <<>> /\ text' = text /\ envs' = Front(envs) /\ modes' = modes /\ Advance
  BY DEF CloseRecord, Continue
<1>8. QED
  BY <1>1, <1>6, <1>7, ScopeCloses

\* A declarator, in Skip mode if the declaration is a typedef.
LEMMA CallDeclaratorKeeps ==
  ASSUME DInv, Plain(Frame), Frame.at = "Declarators", text' = text, CallDeclarator, Advance \/ UNCHANGED lexerVars
  PROVE  DInv'
<1>1. FrameOK(Frame)
  BY TopIsOK
<1>2. PICK g : g = [Frame EXCEPT !.at = "AddDeclarator"]
  OBVIOUS
<1>3. "typedef" \in DOMAIN Frame /\ "at" \in DOMAIN Frame
  BY SMTT(60), <1>1 DEF FrameOK
<1>4. DOMAIN g = DOMAIN Frame /\ g.at = "AddDeclarator" /\ g.typedef = Frame.typedef
  BY <1>2, <1>3, GoesTo
<1>5. FrameOK(g)
  BY <1>3, <1>4 DEF FrameOK, Begins
<1>6. PICK d : d = DeclaratorFrame(Frame.base)
  OBVIOUS
<1>7. Plain(d)
  BY <1>6, NewFrames
<1>8. /\ control' = Front(control) \o <<g, d>> /\ envs' = envs /\ UNCHANGED specVars /\ outcome' = outcome
  BY <1>2, <1>6 DEF CallDeclarator, Continue, rest
<1>9. StatusOK'
  BY <1>8, StatusStays DEF DInv
<1>10. LexerOK' /\ saved' = saved
  BY LexerStays, LexerAdvances DEF DInv, Advance
<1>11. CASE Frame.typedef
  <2>1. SetMode("Skip")
    BY <1>11 DEF CallDeclarator
  <2>2. ModesOK' /\ Len(modes') = Len(modes) + 1
    BY <2>1, ModeSet DEF DInv, SemaOK
  <2>3. SemaOK' /\ Len(envs') = Len(envs)
    BY <1>8, <2>2 DEF DInv, SemaOK, EnvsOK, IsSeq
  <2>4. Skips(g) /\ g.at \notin Begins \cup Scopes /\ g.at # "ParseProgram"
    BY <1>4, <1>11 DEF Skips, Begins, Scopes
  <2>5. Headed(<<g, d>>, g)
    BY <1>5, <1>7, <2>4, HeadedFew
  <2>6. Stacked'
    BY <1>8, <1>10, <2>2, <2>3, <2>4, <2>5, SkipStep
  <2>7. QED
    BY <1>9, <1>10, <2>3, <2>6 DEF DInv
<1>12. CASE ~Frame.typedef
  <2>1. UNCHANGED semaVars
    BY <1>8, <1>12 DEF CallDeclarator, semaVars
  <2>2. Plain(g)
    BY <1>4, <1>5, <1>12 DEF Plain, Skips, Begins, Scopes
  <2>3. PlainSeq(<<g, d>>)
    BY <1>7, <2>2, PlainFew
  <2>4. QED
    BY <1>8, <1>9, <2>1, <2>3, PlainAction
<1>13. QED
  BY <1>11, <1>12

\* The next declarator behind a comma.
LEMMA DeclaratorsKeeps ==
  ASSUME DInv, Declarators
  PROVE  DInv'
<1>1. Plain(Frame) /\ Frame.at = "Declarators"
  BY PlainTop DEF Declarators, At, Marked, Begins, Scopes
<1>2. CASE CallDeclarator /\ (Advance \/ UNCHANGED lexerVars)
  <2>1. text' = text
    BY <1>2 DEF CallDeclarator, rest
  <2>2. QED
    BY <1>1, <1>2, <2>1, CallDeclaratorKeeps
<1>3. CASE ConsumeAndReturn(Nodes(Frame.nodes))
  BY <1>1, <1>3, ReturnKeeps
<1>4. CASE Report
  BY <1>4, ReportKeeps
<1>5. QED
  BY <1>2, <1>3, <1>4 DEF Declarators

\* A declarator joins the list; that of a typedef is declared in the mode before.
LEMMA AddDeclaratorKeeps ==
  ASSUME DInv, AddDeclarator
  PROVE  DInv'
<1>1. FrameOK(Frame) /\ Frame.at = "AddDeclarator"
  BY TopIsOK DEF AddDeclarator, At
<1>2. "typedef" \in DOMAIN Frame /\ "at" \in DOMAIN Frame
  BY <1>1 DEF FrameOK
<1>3. ASSUME NEW as, NEW g, g = [Frame EXCEPT !.at = "Declarators", !.nodes = Append(@, Node(as))]
      PROVE  PlainSeq(<<g>>)
  <2>1. PICK v : v = Append(Frame.nodes, Node(as))
    OBVIOUS
  <2>2. g = [Frame EXCEPT !.at = "Declarators", !.nodes = v]
    BY <1>3, <2>1
  <2>3. DOMAIN g = DOMAIN Frame /\ g.at = "Declarators"
    BY <1>2, <2>2, GoesTo
  <2>4. Plain(g)
    BY <1>2, <2>3 DEF Plain, FrameOK, Skips, Begins, Scopes
  <2>5. QED
    BY <2>4, PlainFew
<1>4. CASE Report
  BY <1>4, ReportKeeps
<1>5. CASE ~Frame.typedef
  <2>1. PICK g : g = [Frame EXCEPT !.at = "Declarators", !.nodes = Append(@, Node("object"))]
    OBVIOUS
  <2>2. PlainSeq(<<g>>)
    BY <1>3, <2>1
  <2>3. /\ control' = Front(control) \o <<g>> /\ text' = text /\ UNCHANGED lexerVars
        /\ UNCHANGED semaVars /\ UNCHANGED specVars /\ outcome' = outcome
    BY <1>5, <2>1 DEF AddDeclarator, Continue, rest
  <2>4. StatusOK'
    BY <2>3, StatusStays DEF DInv
  <2>5. Plain(Frame)
    BY <1>1, <1>5 DEF Plain, Skips, Begins, Scopes
  <2>6. QED
    BY <2>2, <2>3, <2>4, <2>5, PlainAction
<1>6. CASE Frame.typedef /\ ~Report
  <2>1. PICK g : g = [Frame EXCEPT !.at = "Declarators", !.nodes = Append(@, Node("typedef"))]
    OBVIOUS
  <2>2. PlainSeq(<<g>>)
    BY <1>3, <2>1
  <2>3. PICK mode : mode = Last(Front(modes))
    OBVIOUS
  <2>4. PICK symbol : symbol = Symbol("typedef", ret.type, FALSE)
    OBVIOUS
  <2>5. /\ control' = Front(control) \o <<g>> /\ UNCHANGED lexerVars /\ text' = text
        /\ UnSetMode /\ envs' = Declare(mode, envs, ret.name, symbol)
        /\ UNCHANGED specVars /\ outcome' = outcome
    BY <1>6, <2>1, <2>3, <2>4 DEF AddDeclarator, Continue, rest
  <2>6. StatusOK'
    BY <2>5, StatusStays DEF DInv
  <2>7. LexerOK' /\ saved' = saved
    BY <2>5, LexerStays DEF DInv
  <2>8. Skips(Frame) /\ Frame.at \notin Begins \cup Scopes /\ Frame.at # "ParseProgram"
    BY <1>1, <1>6 DEF Skips, Begins, Scopes
  <2>9. Len(modes) - 1 >= 1
    <3>1. Calls(control) /\ Balanced(control, saved, Len(modes) - 1, Len(envs) - 1)
      BY DEF DInv, Stacked, Balanced
    <3>2. Len(control) \in Skipping(control)
      BY <2>8, <3>1, FramePlaces DEF Frame
    <3>3. Skipping(control) \in SUBSET Nat /\ \A i \in Skipping(control) : i <= Len(control)
      BY <3>1, <3>2, FramePlaces, ShiftOut
    <3>4. QED
      BY <3>1, <3>2, <3>3, NumberPop DEF Balanced
  <2>10. ModesOK' /\ Len(modes') = Len(modes) - 1
    BY <2>5, <2>9, ModeUnset DEF DInv, SemaOK
  <2>11. EnvsOK' /\ Len(envs') = Len(envs)
    <3>1. IsSeq(envs) /\ envs # <<>>
      BY DEF DInv, SemaOK, EnvsOK
    <3>2. QED
      BY <2>5, <3>1, DeclareLen DEF EnvsOK, IsSeq
  <2>12. Stacked'
    BY ZenonT(60), <2>2, <2>5, <2>7, <2>8, <2>10, <2>11, SkipEnd
  <2>13. QED
    BY <2>6, <2>7, <2>10, <2>11, <2>12 DEF DInv, SemaOK
<1>7. QED
  BY <1>4, <1>5, <1>6

\* Every step of the parser keeps the invariant.
LEMMA StepKeeps ==
  ASSUME DInv, Step
  PROVE  DInv'
<1>1. CASE ParseProgram
  BY <1>1, ParseProgramKeeps
<1>2. CASE EndProgram
  BY <1>2, EndProgramKeeps
<1>3. CASE ReadAhead
  BY <1>3, ReadAheadKeeps
<1>4. CASE IsFuncDecl
  BY <1>4, IsFuncDeclKeeps
<1>5. CASE AddExternal
  BY <1>5, AddExternalKeeps
<1>6. CASE ParseFuncDecl
  BY <1>6, ParseFuncDeclKeeps
<1>7. CASE FuncTypedef
  BY <1>7, FuncTypedefKeeps
<1>8. CASE FuncDeclaration
  BY <1>8, FuncDeclarationKeeps
<1>9. CASE ParseDeclStmt
  BY <1>9, ParseDeclStmtKeeps
<1>10. CASE Declarators
  BY <1>10, DeclaratorsKeeps
<1>11. CASE AddDeclarator
  BY <1>11, AddDeclaratorKeeps
<1>12. CASE ReadSpecifier
  BY <1>12, ReadSpecifierKeeps
<1>13. CASE EndOfInput
  BY <1>13, EndOfInputKeeps
<1>14. CASE EndSpecifiers
  BY <1>14, EndSpecifiersKeeps
<1>15. CASE ParseStructOrUnionSpec
  BY <1>15, ParseStructOrUnionSpecKeeps
<1>16. CASE OpenRecord
  BY <1>16, OpenRecordKeeps
<1>17. CASE ParseMember
  BY <1>17, ParseMemberKeeps
<1>18. CASE AddMembers
  BY <1>18, AddMembersKeeps
<1>19. CASE CloseRecord
  BY <1>19, CloseRecordKeeps
<1>20. CASE Star
  BY <1>20, StarKeeps
<1>21. CASE Open
  BY <1>21, OpenKeeps
<1>22. CASE Skipped
  BY <1>22, SkippedKeeps
<1>23. CASE Reopen
  BY <1>23, ReopenKeeps
<1>24. CASE Parenthesis
  BY <1>24, ParenthesisKeeps
<1>25. CASE Close
  BY <1>25, CloseKeeps
<1>26. CASE Identifier
  BY <1>26, IdentifierKeeps
<1>27. CASE NoDeclarator
  BY <1>27, NoDeclaratorKeeps
<1>28. CASE SemaVariableDeclNode
  BY <1>28, SemaVariableDeclNodeKeeps
<1>29. CASE Initializer
  BY <1>29, InitializerKeeps
<1>30. CASE InitValue
  BY <1>30, InitValueKeeps
<1>31. CASE ArraySuffix
  BY <1>31, ArraySuffixKeeps
<1>32. CASE MakeArray
  BY <1>32, MakeArrayKeeps
<1>33. CASE FuncSuffix
  BY <1>33, FuncSuffixKeeps
<1>34. CASE NoSuffix
  BY <1>34, NoSuffixKeeps
<1>35. CASE Params
  BY <1>35, ParamsKeeps
<1>36. CASE LastParam
  BY <1>36, LastParamKeeps
<1>37. CASE NextParam
  BY <1>37, NextParamKeeps
<1>38. CASE ParamDeclarator
  BY <1>38, ParamDeclaratorKeeps
<1>39. CASE AddParam
  BY <1>39, AddParamKeeps
<1>40. CASE EndParams
  BY <1>40, EndParamsKeeps
<1>41. QED
  BY <1>1, <1>2, <1>3, <1>4, <1>5, <1>6, <1>7, <1>8, <1>9, <1>10, <1>11,
     <1>12, <1>13, <1>14, <1>15, <1>16, <1>17, <1>18, <1>19, <1>20, <1>21,
     <1>22, <1>23, <1>24, <1>25, <1>26, <1>27, <1>28, <1>29, <1>30, <1>31,
     <1>32, <1>33, <1>34, <1>35, <1>36, <1>37, <1>38, <1>39, <1>40, ZenonT(60)
     DEF Step

\* It holds before the first.
LEMMA InitHolds ==
  ASSUME Init
  PROVE  DInv
<1>1. IInv /\ status = "reading"
  BY StartCounted DEF Init, StartSpec
<1>2. StatusOK
  BY <1>1 DEF StatusOK
<1>3. LexerOK
  BY DEF Init, LexerOK, OneAhead
<1>4. modes = <<"Normal">> /\ modes \in Seq({"Normal", "Skip"}) /\ Len(modes) = 1 /\ modes # <<>>
  BY DEF Init
<1>5. PICK x : x = EmptyEnv
  OBVIOUS
<1>6. envs = <<x>> /\ IsSeq(envs) /\ Len(envs) = 1 /\ envs # <<>>
  BY <1>5, FewFrames DEF Init
<1>7. SemaOK
  BY <1>4, <1>6 DEF SemaOK, ModesOK, EnvsOK
<1>8. PICK a : a = [at |-> "ParseProgram"]
  OBVIOUS
<1>9. control = <<a>> /\ a.at = "ParseProgram" /\ FrameOK(a) /\ ~Skips(a)
  BY <1>8 DEF Init, FrameOK, Skips, Begins
<1>10. IsSeq(control) /\ DOMAIN control = {1} /\ control[1] = a /\ control # <<>>
  BY <1>9, FewFrames
<1>11. Calls(control)
  BY <1>9, <1>10 DEF Calls
<1>12. Begun(control) = {} /\ Skipping(control) = {} /\ Opened(control) = {}
  BY <1>9, <1>10 DEF Begun, Skipping, Opened, Begins, Scopes
<1>13. Enumerates(<<>>, 0, {}) /\ <<>> \in [1 .. 0 -> {}]
  BY DEF Enumerates
<1>14. Numbered(0, {})
  BY <1>13 DEF Numbered
<1>15. saved = <<>> /\ saved \in Seq(Nat) /\ Len(saved) = 0
  BY DEF Init
<1>16. Remembers(saved, control)
  BY <1>12, <1>13, <1>15 DEF Remembers
<1>17. Balanced(control, saved, 0, 0)
  BY <1>11, <1>12, <1>14, <1>15, <1>16 DEF Balanced
<1>18. Stacked
  BY <1>4, <1>6, <1>17 DEF Stacked
<1>19. QED
  BY <1>2, <1>3, <1>7, <1>18 DEF DInv

\* And so in every state.
LEMMA DeclarationsInvariant == Spec => []DInv
<1>1. Init => DInv
  BY InitHolds
<1>2. DInv /\ [Next]_vars => DInv'
  <2> SUFFICES ASSUME DInv, [Next]_vars
               PROVE  DInv'
    OBVIOUS
  <2>1. CASE Step
    BY <2>1, StepKeeps
  <2>2. CASE UNCHANGED vars
    <3>1. /\ text' = text /\ UNCHANGED lexerVars /\ UNCHANGED semaVars /\ control' = control
          /\ UNCHANGED specVars /\ outcome' = outcome
      BY <2>2 DEF vars, rest
    <3>2. LexerOK' /\ saved' = saved
      BY <3>1, LexerStays DEF DInv
    <3>3. SemaOK' /\ Len(modes') = Len(modes) /\ Len(envs') = Len(envs)
      BY <3>1, SemaStays DEF DInv
    <3>4. StatusOK'
      BY <3>1, StatusStays DEF DInv
    <3>5. Balanced(control', saved', Len(modes) - 1, Len(envs) - 1)
      BY <3>1, <3>2 DEF DInv, Stacked
    <3>6. Stacked'
      BY <3>1, <3>3, <3>5, NextStacked
    <3>7. QED
      BY <3>2, <3>3, <3>4, <3>6 DEF DInv
  <2>3. QED
    BY <2>1, <2>2 DEF Next, Done
<1>3. QED
  BY <1>1, <1>2, PTL DEF Spec

\* When ParseProgram runs it is the only frame, and has no mark.
LEMMA NothingIsLeft ==
  ASSUME DInv
  PROVE  NothingLeft
<1> SUFFICES ASSUME Frame.at = "ParseProgram"
             PROVE  saved = <<>> /\ modes = <<"Normal">> /\ Len(envs) = 1
  BY DEF NothingLeft, At
<1>1. Calls(control) /\ Balanced(control, saved, Len(modes) - 1, Len(envs) - 1)
  BY DEF DInv, Stacked, Balanced
<1>2. Len(control) = 1 /\ DOMAIN control = {1} /\ control[1].at = "ParseProgram"
  <2>1. Len(control) = 1 /\ DOMAIN control = 1 .. Len(control) /\ Last(control) = control[Len(control)]
    BY <1>1, FramePlaces DEF Frame
  <2>2. QED
    BY <2>1 DEF Frame
<1>3. Begun(control) = {} /\ Skipping(control) = {} /\ Opened(control) = {}
  BY <1>2 DEF Begun, Skipping, Opened, Begins, Scopes, Skips
<1>4. Len(modes) - 1 = 0 /\ Len(envs) - 1 = 0
  BY <1>1, <1>3, NumberNone DEF Balanced
<1>5. modes = <<"Normal">>
  <2>1. modes \in Seq({"Normal", "Skip"}) /\ Len(modes) = 1 /\ modes[1] = "Normal"
    BY <1>4 DEF DInv, SemaOK, ModesOK
  <2>2. QED
    BY <2>1
<1>6. Len(envs) = 1
  <2>1. Len(envs) \in Nat
    BY SeqParts DEF DInv, SemaOK, EnvsOK
  <2>2. QED
    BY <1>4, <2>1
<1>7. saved = <<>>
  <2>1. saved \in Seq(Nat) /\ Remembers(saved, control)
    BY <1>1 DEF Balanced
  <2>2. Numbered(Len(saved), {})
    BY <1>3, <2>1 DEF Remembers, Numbered
  <2>3. Len(saved) = 0
    BY <2>1, <2>2, NumberNone
  <2>4. QED
    BY <2>1, <2>3
<1>8. QED
  BY <1>5, <1>6, <1>7

-----------------------------------------------------------------------------
(* The theorems about the parser *)

\* Whatever the parser reads ahead and puts back (SaveState, RestoreState and its
\* own copy of the current token), the lexer's position stays right behind it; and
\* when ParseProgram comes to the next external declaration, every RestoreState has
\* matched its SaveState, every UnSetMode its SetMode and every ExitScope its
\* EnterScope, however deep records, parentheses and parameters were nested.
THEOREM ParserInStep == Spec => []InStep
<1>1. DInv => InStep
  BY NothingIsLeft DEF DInv, LexerOK, InStep
<1>2. QED
  BY <1>1, DeclarationsInvariant, PTL

\* Wherever specifiers stand (of an external declaration, a member or a parameter,
\* read ahead or for good, and with a record among them) what the parser accepts has
\* the type of C.
THEOREM ParsedTypesAreRight == Spec => []TypeIsRight
<1>1. DInv => TypeIsRight
  BY TypedWhenDone DEF DInv, StatusOK
<1>2. QED
  BY <1>1, DeclarationsInvariant, PTL

\* And what it rejects begins no declaration of C.
THEOREM ParsedRejectionsAreRight == Spec => []RejectionIsRight
<1>1. DInv => RejectionIsRight
  BY DEF DInv, StatusOK, IInv
<1>2. QED
  BY <1>1, DeclarationsInvariant, PTL

=============================================================================
