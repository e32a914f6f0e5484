--------------------------- MODULE MCDeclarations ---------------------------
(***************************************************************************)
(* The texts that Declarations is checked on, and the refinement of        *)
(* OnePass.  The declarators are all those of up to two layers, and the    *)
(* simple ones of three, in every place of a declaration; each text of up  *)
(* to two layers is also parsed with any one of its tokens missing.        *)
(***************************************************************************)
EXTENDS Declarations

OP == INSTANCE OnePass WITH text <- text, program <- program, outcome <- outcome

SomeNames == {"x", "y", "T"}

-----------------------------------------------------------------------------
(* Declarators *)

Suffixes1 == {<<"[2]">>, <<"[3]">>, <<"(", ")">>, <<"(", "int", "y", ")">>}

\* One layer more than the declarators ds.
Around(ds) ==
    {<<"*">> \o d : d \in ds} \cup {<<"(">> \o d \o <<")">> : d \in ds}
    \cup {d \o s : d \in ds, s \in Suffixes1}

Layers1 == Around({<<"x">>})
Layers2 == Around(Layers1)
Layers3 == Around(Layers2)

Simple(ds) == {<<"int">> \o d \o <<";">> : d \in ds}

\* Texts with a declarator of ds for x, and others before, behind and around it.
InPlaces(ds) ==
    {<<"int">> \o d \o <<"{}">> : d \in ds}
    \cup {<<"int">> \o d \o <<"=", "0", ";">> : d \in ds}
    \cup {<<"int">> \o d \o <<",", "y", ";">> : d \in ds}
    \cup {<<"int", "y", ",">> \o d \o <<";">> : d \in ds}
    \cup {<<"int">> \o d \o <<";", "int", "y", ";">> : d \in ds}
    \cup {<<"int", "T", "(">> \o d \o <<")", ";">> : d \in ds}
    \cup {<<"int", "T", "(", "void", ")", ",">> \o d \o <<";">> : d \in ds}
    \cup {<<"int", "y", "(", "int", "T", ",">> \o d \o <<")", "{}">> : d \in ds}
    \cup {<<"int", "y", "(", "int">> \o d \o <<",", "...", ")", ";">> : d \in ds}
    \cup {<<"typedef", "int">> \o d \o <<";", "x", "T", ";">> : d \in ds}
    \cup {<<"typedef", "int">> \o d \o <<";", "int", "y", "(", "x", "T", ")", ";">> : d \in ds}

\* A token of the text is missing.
Cut(t) == {RemoveAt(t, i) : i \in DOMAIN t}

-----------------------------------------------------------------------------
(* Specifiers *)

SeqsUpTo(S, n) == UNION {[1..m -> S] : m \in 1..n}

Before(keywords, ending) == {k \o ending : k \in keywords}

\* Every three keywords for a type, every two of all of them and every five of
\* those that combine most.
KeywordLists ==
    SeqsUpTo(Keywords \ UserTypes, 2)
    \cup SeqsUpTo(TypeSpecifiers \ UserTypes, 3)
    \cup SeqsUpTo({"typedef", "static", "const", "int", "unsigned"}, 3)
    \cup SeqsUpTo({"unsigned", "long", "int", "const"}, 5)

UserTypeLists ==
    SeqsUpTo({"T", "int", "long", "unsigned", "static", "x"}, 3)

-----------------------------------------------------------------------------
(* Declarations one after the other *)

Struct(members) == <<"struct", "{">> \o members \o <<"}">>

RecordTexts ==
    LET one == Struct(<<"int", "x", ";">>)
    IN  {one \o t : t \in {<<";">>, <<"x", ";">>, <<"x", ",", "*", "y", ";">>, <<"int", "x", ";">>,
                           <<"x", ";">> \o one \o <<"y", ";">>, <<"y", "(", "T", "x", ")", ";">>, <<>>}}
        \cup Before({<<"typedef">>, <<"long">>, <<"static">>}, one \o <<"T", ";">>)
        \cup {Struct(m) \o <<"y", ";">> :
                m \in {<<"int", "x", ",", "*", "y", ";">>, <<"int", "x", ";", "char", "x", ";">>,
                       <<"int", "x", "[2]", ";", "long", "y", ";">>, <<"int", ";">>,
                       <<"typedef", "int", "x", ";">>, one \o <<"y", ";">>, one \o <<"y", ";">> \o one \o <<"x", ";">>}}

\* What may be declared of x, twice.
Declarations1 ==
    {<<"int", "x", ";">>, <<"int", "x", "(", ")", ";">>, <<"int", "x", "(", ")", "{}">>,
     <<"int", "x", "(", "int", "T", ")", "{}">>, <<"typedef", "int", "x", ";">>,
     <<"typedef", "int", "x", "(", ")", ";">>, <<"x", "y", ";">>, <<"int", "y", "(", "x", "T", ")", ";">>,
     <<"int", "y", "(", "int", "x", ")", "{}">>, <<"int", ";">>, <<"typedef", "int", "y", ",", "x", ";">>,
     <<"static", "x", "y", ";">>, <<"x", "*", "y", "(", "x", "x", ",", "int", "T", ")", ";">>}

Functions == {<<"int", "x", "(", ")", ";">>, <<"int", "x", "(", ")", "{}">>, <<"int", "y", "(", ")", "{}">>}

-----------------------------------------------------------------------------

Unfiltered ==
    Simple(Layers1 \cup Layers2 \cup Layers3)
    \cup InPlaces(Layers1 \cup Layers2)
    \cup UNION {Cut(t) : t \in Simple(Layers1 \cup Layers2) \cup InPlaces(Layers1)}
    \cup Before(KeywordLists, <<"x", ";">>)
    \cup {<<"typedef", "int", "T", ";">> \o t : t \in Before(UserTypeLists, <<"y", ";">>)}
    \cup RecordTexts
    \cup UNION {Cut(t) : t \in RecordTexts}
    \cup {d \o e : d, e \in Declarations1}
    \cup {d \o e \o f : d, e, f \in Functions}
    \cup {<<>>}

SomeTexts == {t \in Unfiltered : \A i \in DOMAIN t : t[i] = "struct" => i < Len(t) /\ t[i+1] = "{"}

-----------------------------------------------------------------------------
(* Properties *)

\* With all it reads twice, in two modes, the parser does what reading every
\* declaration once from left to right does: it adds the declarations of C to the
\* program one by one and accepts what is C.
Implements == OP!OnePassSpec

=============================================================================
