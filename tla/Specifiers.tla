----------------------------- MODULE Specifiers -----------------------------
(***************************************************************************)
(* The keywords of a declaration's specifiers and the types that C says    *)
(* they name (C11 6.7.2).  What a sequence of keywords means depends on how*)
(* often each occurs in it and not on their order.                         *)
(***************************************************************************)
EXTENDS Naturals

Kinds == {"void", "char", "int", "float", "double"}
StorageClasses == {"typedef", "extern", "static", "auto", "register"}
Qualifiers == {"const", "volatile", "inline"}

\* A struct or union specifier is one keyword here, a typedef name another.
UserTypes == {"record", "typename"}

TypeSpecifiers == Kinds \cup {"signed", "unsigned", "short", "long"} \cup UserTypes

Keywords == TypeSpecifiers \cup StorageClasses \cup Qualifiers

NoKeywords == [k \in Keywords |-> 0]

-----------------------------------------------------------------------------
(* C *)

\* The type specifiers that name a type together, each as often as it is in
\* the list (C11 6.7.2).
Named(base, longs, signs, type) ==
    [base : base, longs : longs, signs : signs, type : {type}]

CTypes ==
    Named({"void"}, {"none"}, {"none"}, "Void")
    \cup Named({"char"}, {"none"}, {"none", "signed"}, "Char")
    \cup Named({"char"}, {"none"}, {"unsigned"}, "UChar")
    \cup Named({"float"}, {"none"}, {"none"}, "Float")
    \cup Named({"double"}, {"none"}, {"none"}, "Double")
    \cup Named({"double"}, {"long"}, {"none"}, "LDouble")
    \cup Named({"none", "int"}, {"short"}, {"none", "signed"}, "Short")
    \cup Named({"none", "int"}, {"short"}, {"unsigned"}, "UShort")
    \cup Named({"int"}, {"none"}, {"none", "signed"}, "Int")
    \cup Named({"none"}, {"none"}, {"signed"}, "Int")
    \cup Named({"none", "int"}, {"none"}, {"unsigned"}, "UInt")
    \cup Named({"none", "int"}, {"long"}, {"none", "signed"}, "Long")
    \cup Named({"none", "int"}, {"long"}, {"unsigned"}, "ULong")
    \cup Named({"none", "int"}, {"llong"}, {"none", "signed"}, "LongLong")
    \cup Named({"none", "int"}, {"llong"}, {"unsigned"}, "ULongLong")
    \cup Named({"record"}, {"none"}, {"none"}, "record")
    \cup Named({"typename"}, {"none"}, {"none"}, "typename")

\* How often the keyword t occurs in a declaration that names the type of c.
Occurrences(c, t) ==
    CASE t \in Kinds \cup UserTypes -> IF c.base = t THEN 1 ELSE 0
      [] t = "short" -> IF c.longs = "short" THEN 1 ELSE 0
      [] t = "long"  -> CASE c.longs = "long" -> 1 [] c.longs = "llong" -> 2 [] OTHER -> 0
      [] OTHER       -> IF c.signs = t THEN 1 ELSE 0

\* Of the keywords that occur n[t] times each.
OneStorageClass(n) ==
    \A s, t \in StorageClasses : n[s] + (IF s = t THEN 0 ELSE n[t]) <= 1

NamesType(n, c) == \A t \in TypeSpecifiers : n[t] = Occurrences(c, t)

\* More keywords could follow, or none, and name the type of c.
Completes(n, c) == OneStorageClass(n) /\ \A t \in TypeSpecifiers : n[t] <= Occurrences(c, t)

-----------------------------------------------------------------------------

\* What ParseDeclSpec gets wrong of the keywords that occur n[t] times each.
ShapesOf(n) ==
    {s \in {"implicitInt"} : \A t \in TypeSpecifiers : n[t] = 0}
    \cup {s \in {"unsignedChar"} : n["char"] > 0 /\ n["unsigned"] > 0}
    \cup {s \in {"longLongKind"} : n["long"] > 1 /\ \E k \in Kinds \ {"int"} : n[k] > 0}
    \cup {s \in {"typedefAsName"} : /\ n["typename"] > 0
                                    /\ \E t \in TypeSpecifiers \ {"typename"} : n[t] > 0}

=============================================================================
