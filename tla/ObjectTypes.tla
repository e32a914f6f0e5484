----------------------------- MODULE ObjectTypes -----------------------------
(***************************************************************************)
(* The types of objects that are initialised, with their layout, and the   *)
(* way into an object: an index at each array and record passed.  Indices  *)
(* count from 0.  Values are tokens: numbers and the characters of strings.*)
(***************************************************************************)
EXTENDS Integers, SequencesExt

Scalar(kind, size) == [kind |-> kind, size |-> size, align |-> size, count |-> 0, parts |-> <<>>, offsets |-> <<>>]

IntType == Scalar("int", 4)
CharType == Scalar("char", 1)
DoubleType == Scalar("double", 8)

\* A count below 0 is that of an array whose length the initialiser gives.
Array(t, n) == [kind |-> "array", size |-> n * t.size, align |-> t.align, count |-> n, parts |-> <<t>>, offsets |-> <<0>>]

RoundUp(n, align) == align * ((n + align - 1) \div align)

MaxAlign(ms) == Max({m.align : m \in ToSet(ms)})

\* A member starts where the one before it ends, rounded up.
Struct(ms) ==
    LET end[k \in 0..Len(ms)] == IF k = 0 THEN 0 ELSE RoundUp(end[k-1], ms[k].align) + ms[k].size
    IN  [kind |-> "struct", size |-> RoundUp(end[Len(ms)], MaxAlign(ms)), align |-> MaxAlign(ms), count |-> 0,
         parts |-> ms, offsets |-> [k \in DOMAIN ms |-> RoundUp(end[k-1], ms[k].align)]]

Union(ms) ==
    [kind |-> "union", size |-> RoundUp(Max({m.size : m \in ToSet(ms)}), MaxAlign(ms)), align |-> MaxAlign(ms),
     count |-> 0, parts |-> ms, offsets |-> [k \in DOMAIN ms |-> 0]]

IsScalar(t) == t.parts = <<>>
IsStringArrayType(t) == t.kind = "array" /\ t.parts[1].kind = "char"

\* The parts of t that are initialised in turn: of a union only the first member.
Count(t) == CASE t.kind = "array" -> t.count [] t.kind = "union" -> 1 [] OTHER -> Len(t.parts)
Part(t, k) == IF t.kind = "array" THEN t.parts[1] ELSE t.parts[k + 1]
PartOffset(t, k) == IF t.kind = "array" THEN k * t.parts[1].size ELSE t.offsets[k + 1]

\* The tokens of an initialiser.
Numbers == {"1", "2", "3", "4"}
Strings == ("\"\"" :> <<>>) @@ ("\"a\"" :> <<"a">>) @@ ("\"ab\"" :> <<"a", "b">>)
Zero == "0"

=============================================================================
