------------------------------ MODULE DeclSpec ------------------------------
(***************************************************************************)
(* ParseDeclSpec: a declaration begins with keywords in any order, and one *)
(* pass over them classifies the type they name.  The four enumerations of *)
(* the function are its local variables; each keyword sets one of them or  *)
(* is an error, and is checked against the others at once.                 *)
(***************************************************************************)
EXTENDS Specifiers

VARIABLES
    kind,       \* one of Kinds, or "unused"; so are the next three
    size,       \* "short", "long" or "llong"
    sig,        \* "signed" or "unsigned"
    sclass,     \* one of StorageClasses
    usertype,   \* a struct, a union or the type of a typedef name
    status,     \* "reading", "done", "rejected" or "undefined"
    counts      \* history: how often each keyword was read

specVars == <<kind, size, sig, sclass, usertype, status, counts>>

Unused == "unused"

StartSpec ==
    /\ kind = Unused /\ size = Unused /\ sig = Unused /\ sclass = Unused
    /\ usertype = Unused
    /\ status = "reading"
    /\ counts = NoKeywords

\* The next call of the function.
BeginSpec ==
    /\ kind' = Unused /\ size' = Unused /\ sig' = Unused /\ sclass' = Unused
    /\ usertype' = Unused
    /\ status' = "reading"
    /\ counts' = NoKeywords

-----------------------------------------------------------------------------
(* One keyword *)

\* Label errcheck, on the values the keyword leaves.
ClashIgnoresSign(k, z, s, u) ==
    \/ z = "short" /\ k \notin {Unused, "int"}
    \/ z = "long" /\ k \notin {Unused, "int", "double"}
    \/ u # Unused /\ (k # Unused \/ z # Unused \/ s # Unused)

Clash(k, z, s, u) ==
    \/ z = "short" /\ k \notin {Unused, "int"}
    \/ z = "long" /\ k \notin {Unused, "int", "double"}
    \/ s # Unused /\ k \in {"void", "float", "double"}
    \/ u # Unused /\ (k # Unused \/ z # Unused \/ s # Unused)

\* The keyword t is read, and its variable was free or not.
Read(t, free) ==
    /\ counts' = [counts EXCEPT ![t] = @ + 1]
    /\ status' = IF free /\ ~Clash(kind', size', sig', usertype') THEN "reading" ELSE "rejected"

Set(old, new) == IF old = Unused THEN new ELSE old

ReadKind(t) ==
    /\ t \in Kinds
    /\ kind' = Set(kind, t)
    /\ UNCHANGED <<size, sig, sclass, usertype>>
    /\ Read(t, kind = Unused)

ReadSign(t) ==
    /\ t \in {"signed", "unsigned"}
    /\ sig' = Set(sig, t)
    /\ UNCHANGED <<kind, size, sclass, usertype>>
    /\ Read(t, sig = Unused)

ReadShort(t) ==
    /\ t = "short"
    /\ size' = Set(size, t)
    /\ UNCHANGED <<kind, sig, sclass, usertype>>
    /\ Read(t, size = Unused)

ReadLongOnce(t) ==
    /\ t = "long"
    /\ size' = Set(size, t)
    /\ UNCHANGED <<kind, sig, sclass, usertype>>
    /\ Read(t, size = Unused)

\* The second long makes a long long.
ReadLong(t) ==
    /\ t = "long"
    /\ size' = CASE size = Unused -> "long"
                 [] size = "long" -> "llong"
                 [] OTHER         -> size
    /\ UNCHANGED <<kind, sig, sclass, usertype>>
    /\ Read(t, size \in {Unused, "long"})

\* A typedef name is looked up only while it can be the type: after a kind or
\* another user type it is left to the declarator.
ReadUserType(t) ==
    /\ t \in UserTypes
    /\ t = "typename" => kind = Unused /\ usertype = Unused
    /\ usertype' = Set(usertype, t)
    /\ UNCHANGED <<kind, size, sig, sclass>>
    /\ Read(t, usertype = Unused)

ReadStorageClass(t) ==
    /\ t \in StorageClasses
    /\ sclass' = Set(sclass, t)
    /\ UNCHANGED <<kind, size, sig, usertype>>
    /\ Read(t, sclass = Unused)

ReadQualifier(t) ==
    /\ t \in Qualifiers
    /\ UNCHANGED <<kind, size, sig, sclass, usertype>>
    /\ Read(t, TRUE)

ReadKeyword(t) ==
    /\ status = "reading"
    /\ \/ ReadKind(t) \/ ReadSign(t) \/ ReadShort(t) \/ ReadLong(t)
       \/ ReadUserType(t) \/ ReadStorageClass(t) \/ ReadQualifier(t)

NothingRead == \A t \in Keywords : counts[t] = 0

\* Any other token ends the specifiers; the first one must be a keyword.  A name
\* after specifiers without a kind is looked up as a typedef name, and when
\* nothing declares it the lookup reports it, unless Sema is in Skip mode.
EndSpec(reported) ==
    /\ status = "reading"
    /\ status' = CASE NothingRead -> "rejected"
                   [] ~NothingRead /\ reported /\ kind = Unused /\ usertype = Unused -> "undefined"
                   [] OTHER -> "done"
    /\ UNCHANGED <<kind, size, sig, sclass, usertype, counts>>

ReadNext ==
    \/ BeginSpec
    \/ \E t \in Keywords : ReadKeyword(t)
    \/ \E reported \in BOOLEAN : EndSpec(reported)

SpecifierSpec == StartSpec /\ [][ReadNext]_specVars

-----------------------------------------------------------------------------
(* Label done: the type *)

Signedness(t, u) == IF sig = "unsigned" THEN u ELSE t

IntegerType ==
    CASE size = "short"  -> Signedness("Short", "UShort")
      [] size = "long"   -> Signedness("Long", "ULong")
      [] size = "llong"  -> Signedness("LongLong", "ULongLong")
      [] OTHER           -> Signedness("Int", "UInt")

DeclaredType ==
    CASE usertype # Unused -> usertype
      [] usertype = Unused /\ kind = "void"   -> "Void"
      [] usertype = Unused /\ kind = "char"   -> "Char"
      [] usertype = Unused /\ kind = "float"  -> "Float"
      [] usertype = Unused /\ kind = "double" -> IF size = "long" THEN "LDouble" ELSE "Double"
      [] OTHER -> IntegerType

-----------------------------------------------------------------------------
(* Properties *)

SpecShapes == ShapesOf(counts)

SpecTypeOK ==
    /\ kind \in Kinds \cup {Unused}
    /\ size \in {"short", "long", "llong", Unused}
    /\ sig \in {"signed", "unsigned", Unused}
    /\ sclass \in StorageClasses \cup {Unused}
    /\ usertype \in UserTypes \cup {Unused}
    /\ status \in {"reading", "done", "rejected", "undefined"}
    /\ counts \in [Keywords -> Nat]

\* In whatever order they come, the keywords are given the type that C gives
\* them, unless they have one of the shapes that ParseDeclSpec gets wrong.
TypeIsRight ==
    status = "done" /\ SpecShapes = {} =>
      OneStorageClass(counts) /\ \E c \in CTypes : NamesType(counts, c) /\ DeclaredType = c.type

\* A keyword is an error only if no declaration of C has it and those before it,
\* whatever comes after.
RejectionIsRight ==
    status = "rejected" /\ "typedefAsName" \notin SpecShapes =>
      NothingRead \/ \A c \in CTypes : ~Completes(counts, c)
=============================================================================
