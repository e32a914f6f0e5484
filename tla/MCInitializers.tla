--------------------------- MODULE MCInitializers ---------------------------
(***************************************************************************)
(* InitializerMeaning on small types.  The numbers in an initialiser are   *)
(* all different: the n-th is n.                                           *)
(***************************************************************************)
EXTENDS InitializerMeaning

Over(alphabet, n) == UNION {[1..k -> alphabet] : k \in 1..n}

Numbered(tokens) ==
    [k \in DOMAIN tokens |->
        IF tokens[k] = "n" THEN ToString(Cardinality({j \in 1..k : tokens[j] = "n"})) ELSE tokens[k]]

\* A list of parts.
Listed(parts) ==
    {<<"{">> \o p \o <<"}">> : p \in parts} \cup {<<"{">> \o p \o <<",">> \o q \o <<"}">> : p \in parts, q \in parts}

Parts == {<<"n">>, <<"{", "}">>, <<"{", "n", "}">>, <<"{", "n", ",", "n", "}">>, <<"{", "n", ",", "n", ",", "}">>,
          <<"\"a\"">>, <<"\"ab\"">>, <<"{", "\"\"", "}">>, <<"n", ",", "n">>}

Sequences == Over({"{", "}", ",", "n", "\"a\""}, 4) \cup {<<"{", "n", ",", "n", "}">>, <<"{", "n", ",", "n", ",", "}">>, <<"{", "n", "n", "}">>} \cup Listed(Parts)

SomeTypes ==
    {IntType, CharType, DoubleType, Array(IntType, 2), Array(CharType, 2), Array(IntType, -1), Array(CharType, -1),
     Array(Array(IntType, 2), 2), Array(Array(CharType, 2), -1),
     Struct(<<CharType, IntType>>), Struct(<<IntType, Array(CharType, 2)>>), Struct(<<DoubleType, IntType>>),
     Union(<<IntType, CharType>>), Union(<<CharType, IntType>>), Union(<<Array(IntType, 2), IntType>>),
     Struct(<<CharType, Union(<<IntType, CharType>>)>>), Union(<<IntType, Array(IntType, 2)>>),
     Struct(<<IntType, Union(<<Array(CharType, 2), IntType>>)>>),
     Struct(<<CharType, Union(<<Array(IntType, 2), CharType>>)>>),
     Struct(<<Union(<<IntType, Array(IntType, 2)>>), CharType>>),
     Struct(<<Struct(<<IntType, IntType>>), IntType>>), Array(Struct(<<IntType, IntType>>), 2)}

NoInitializer == <<>>

SingleTexts ==
    {[type |-> t, shared |-> FALSE, global |-> g, inits |-> <<Numbered(i)>>] :
        t \in SomeTypes, g \in BOOLEAN, i \in Sequences}

\* Two objects, and objects without an initialiser.
PairTexts ==
    {[type |-> t, shared |-> s, global |-> g, inits |-> <<Numbered(i), Numbered(j)>>] :
        t \in {Array(IntType, -1), Array(CharType, -1), Array(IntType, 2)}, s \in BOOLEAN, g \in BOOLEAN,
        i \in Listed({<<"n">>}), j \in Listed({<<"n">>}) \cup {<<"{", "n", ",", "}">>, <<"\"a\"">>}}
    \cup {[type |-> t, shared |-> FALSE, global |-> g, inits |-> <<NoInitializer>>] :
            t \in {u \in SomeTypes : u.count >= 0}, g \in BOOLEAN}

SomeTexts == SingleTexts \cup PairTexts
=============================================================================
