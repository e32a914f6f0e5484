------------------------------ MODULE OnePass ------------------------------
(***************************************************************************)
(* What the parser promises: the external declarations of a text are added *)
(* to the program one after the other, as C reads them from left to right, *)
(* and the text is accepted at its end or rejected at the first one that   *)
(* is not C.  Of a text with one of the shapes that the parser takes for   *)
(* something else nothing is promised.                                     *)
(***************************************************************************)
EXTENDS CDeclarations

VARIABLES
    text,
    program,    \* the nodes declared so far
    outcome     \* "parsing", "accepted", "rejected" or "crashed"

abstract == <<text, program, outcome>>

\* A maximal run of keywords in the text, by how often each occurs.
Runs(t) ==
    {r \in (DOMAIN t) \X (DOMAIN t) :
        /\ \A i \in r[1]..r[2] : t[i] \in Keywords
        /\ r[1] <= r[2]
        /\ Token(t, r[1] - 1) \notin Keywords /\ Token(t, r[2] + 1) \notin Keywords}

Counts(t, r) == [k \in Keywords |-> Cardinality({i \in r[1]..r[2] : t[i] = k})]

Depth(t, i, open, close) ==
    Cardinality({j \in 1..i : Token(t, j) = open}) - Cardinality({j \in 1..i : Token(t, j) = close})

Occurs(t, name) == Cardinality({i \in DOMAIN t : t[i] = name})

Called(t, name) == Cardinality({i \in DOMAIN t : t[i] = name /\ Token(t, i + 1) = "("})

\* The text without its initialisers.
WithoutInits(t) ==
    LET kept == SelectSeq([i \in DOMAIN t |-> i],
                          LAMBDA i : /\ t[i] = "=" => Token(t, i + 1) # "0"
                                     /\ t[i] = "0" => Token(t, i - 1) # "=")
    IN  [i \in DOMAIN kept |-> t[kept[i]]]

(***************************************************************************)
(* The shapes of a declaration that C accepts.                             *)
(***************************************************************************)
PointsToFunction(type) ==
    \E i \in 2..Len(type) : type[i][1] = "function" /\ \A j \in 1..(i-1) : type[j][1] = "pointer"

\* No function returns a function or an array, and no array has functions.
WellDerived(type) ==
    \A i \in 1..(Len(type) - 1) :
        /\ type[i][1] = "function" => type[i+1][1] \notin Sizes \cup {"function"}
        /\ type[i][1] \in Sizes => type[i+1][1] # "function"

\* The parser takes the first declarator for a function's.
TakenForFunction(e) ==
    e.nodes # <<>> /\ (IsFuncType(e.nodes[1].type) \/ PointsToFunction(e.nodes[1].type))

InnerNames(e) == FlattenSeq([j \in DOMAIN e.list |-> [k \in DOMAIN e.list[j].inner |-> e.list[j].inner[k].name]])

OddExternal(t, e) ==
    {s \in {"functionPointer"} : /\ TakenForFunction(e) /\ e.nodes[1].as = "object"}
    \cup {s \in {"underived"} : \E n \in ToSet(e.nodes) : ~WellDerived(n.type)}
    \cup {s \in {"functionTypedef"} :
             \E n \in ToSet(e.nodes) : n.as = "typedef" /\ IsFuncType(n.type) /\ Called(t, n.name) > 1}
    \cup {s \in {"secondBody"} :
             \E n \in ToSet(e.nodes) : n.as = "function" /\ ~n.body /\ Occurs(t, n.name) > 2 /\ Occurs(t, "{}") > 1}
    \cup {s \in {"functionInList"} : /\ Len(e.nodes) > 1
                                     /\ TakenForFunction(e) \/ \E n \in ToSet(e.nodes) : n.as = "function"}
    \cup {s \in {"paramsLeak"} : /\ ~TakenForFunction(e)
                                 /\ \E n \in ToSet(InnerNames(e)) : Occurs(t, n) > 1}
    \cup {s \in {"sameNames"} : Repeats(InnerNames(e) \o [j \in DOMAIN e.nodes |-> e.nodes[j].name])}
    \cup {s \in {"arrayParam"} : \E j \in DOMAIN e.list : \E p \in ToSet(e.list[j].inner) :
                                    Outermost(p.type) \in Sizes \cup {"function"}}

(***************************************************************************)
(* The shapes that are seen in the tokens.                                 *)
(***************************************************************************)
OddTokens(t) ==
    UNION {ShapesOf(Counts(t, r)) \ {"implicitInt"} : r \in Runs(t)}
    \cup {s \in {"implicitInt"} : \E r \in Runs(t) :
             /\ \A k \in TypeSpecifiers : Counts(t, r)[k] = 0
             /\ Token(t, r[2] + 1) # "struct"}
    \cup {s \in {"noKind"} : \E r \in Runs(t) :
             /\ \A k \in Kinds : Counts(t, r)[k] = 0
             /\ Token(t, r[2] + 1) \in Names}
    \cup {s \in {"missingComma"} : \E i \in 2..Len(t) :
             /\ t[i] \in Keywords \cup {"..."} \cup Names
             /\ t[i-1] \in Names \cup Sizes \cup {")"}
             /\ Depth(t, i, "(", ")") > 0}
    \cup {s \in {"lateVoid"} : \E i \in 2..Len(t) : t[i] = "void" /\ t[i-1] = ","}
    \cup {s \in {"bareMember"} : \E i \in 2..Len(t) :
             /\ t[i] = ";" /\ Depth(t, i, "{", "}") > 0
             /\ t[i-1] \in Keywords \cup {"}"} \/ (t[i-1] \in Names /\ Token(t, i-2) \in {";", "{"})}
    \cup {s \in {"typedefMember"} : \E i \in DOMAIN t : t[i] = "typedef" /\ Depth(t, i, "{", "}") > 0}
    \cup {s \in {"emptyRecord"} : \E i \in 2..Len(t) : t[i] = "}" /\ t[i-1] = "{"}
    \cup {s \in {"twoRecords"} : \E i, j \in DOMAIN t :
             /\ i < j /\ t[i] = "struct" /\ t[j] = "struct"
             /\ Depth(t, i, "{", "}") = Depth(t, j, "{", "}")}
    \cup {s \in {"cutSpecifiers"} : Token(t, Len(t)) \in Keywords \cup {"}"}}
    \cup {s \in {"strayInit"} : CProgram(WithoutInits(t)).valid /\ ~CProgram(t).valid}

Oddities(t) ==
    OddTokens(t) \cup UNION {OddExternal(t, e) : e \in ToSet(CProgram(t).externals)}

-----------------------------------------------------------------------------

\* The nodes of the first k external declarations.
Declared(k) ==
    FlattenSeq([j \in 1..k |-> [n \in DOMAIN CProgram(text).externals[j].nodes |->
        LET node == CProgram(text).externals[j].nodes[n]
        IN  [name |-> node.name, type |-> node.type, as |-> node.as]]])

All == Len(CProgram(text).externals)

Start == program = <<>> /\ outcome = "parsing"

DeclareExternal ==
    /\ program' # program
    /\ outcome = "parsing"
    /\ \E k \in 1..All : program = Declared(k - 1) /\ program' = Declared(k)
    /\ UNCHANGED <<text, outcome>>

Finish ==
    /\ outcome = "parsing" /\ outcome' # "parsing"
    /\ program = Declared(All)
    /\ outcome' = IF CProgram(text).valid THEN "accepted" ELSE "rejected"
    /\ UNCHANGED <<text, program>>

Whatever ==
    /\ UNCHANGED text
    /\ <<program, outcome>>' # <<program, outcome>>
    /\ Oddities(text) # {}

OnePassSpec == Start /\ [][DeclareExternal \/ Finish \/ Whatever]_abstract

=============================================================================
