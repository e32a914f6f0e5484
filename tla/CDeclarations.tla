--------------------------- MODULE CDeclarations ---------------------------
(***************************************************************************)
(* What C makes of a text of declarations (C11 6.7), read from left to     *)
(* right and once: a declarator is read from its name outwards, so that    *)
(* its layers come in the order of its type and nothing is looked for      *)
(* ahead.  Declarators without a name, which the parser does not have, are *)
(* left out.                                                               *)
(*                                                                         *)
(* This is the reference for the parser and models none of its code.  An   *)
(* operator C...(t, i, ...) reads the text t from place i and returns what *)
(* it read and where it ends, or Bad.                                      *)
(***************************************************************************)
EXTENDS Specifiers, TypeLayers, SequencesExt

CONSTANT Names     \* the identifiers

Bad == [end |-> 0]

IsBad(read) == read.end = 0

Token(t, i) == IF i \in DOMAIN t THEN t[i] ELSE "eof"

RECURSIVE CSpecifiers(_, _, _, _, _), CMembers(_, _, _, _, _), CList(_, _, _, _),
          CDeclarator(_, _, _), CSuffixes(_, _, _), CParams(_, _, _, _, _)

\* The specifiers, n[k] of each keyword k being read and the last record or
\* typedef name being user.  `types` has the typedef names in scope.
CSpecifiers(t, i, types, n, user) ==
    LET k == Token(t, i)
        named == {c \in CTypes : NamesType(n, c)}
    IN  IF k \in Keywords \ UserTypes
        THEN CSpecifiers(t, i + 1, types, [n EXCEPT ![k] = @ + 1], user)
        ELSE IF k = "struct"
        THEN LET m == CMembers(t, i + 2, types, <<>>, {})
             IN  IF IsBad(m) THEN Bad
                 ELSE CSpecifiers(t, m.end, types, [n EXCEPT !["record"] = @ + 1], Record(m.types))
        ELSE IF k \in DOMAIN types /\ \A s \in TypeSpecifiers : n[s] = 0
        THEN CSpecifiers(t, i + 1, types, [n EXCEPT !["typename"] = @ + 1], types[k])
        ELSE IF named = {} \/ ~OneStorageClass(n) THEN Bad
        ELSE LET type == (CHOOSE c \in named : TRUE).type
             IN  [end |-> i, type |-> IF type \in UserTypes THEN user ELSE Basic(type), counts |-> n]

Stored(specifiers) == \E s \in StorageClasses : specifiers.counts[s] > 0

\* Declarators with their initialisers, separated by commas, to the semicolon.
CList(t, i, types, found) ==
    LET d == CDeclarator(t, i, types)
        init == ~IsBad(d) /\ Token(t, d.end) = "=" /\ Token(t, d.end + 1) = "0"
        end == IF init THEN d.end + 2 ELSE d.end
        list == Append(found, [name |-> d.name, layers |-> d.layers, inner |-> d.inner, init |-> init])
    IN  IF IsBad(d) THEN Bad
        ELSE CASE Token(t, end) = "," -> CList(t, end + 1, types, list)
               [] Token(t, end) = ";" -> [end |-> end + 1, list |-> list]
               [] OTHER -> Bad

Repeats(names) == Cardinality(ToSet(names)) < Len(names)

CMembers(t, i, types, members, names) ==
    IF Token(t, i) = "}" /\ members # <<>> THEN [end |-> i + 1, types |-> members]
    ELSE LET s == CSpecifiers(t, i, types, NoKeywords, <<>>)
             l == CList(t, s.end, types, <<>>)
             new == [j \in DOMAIN l.list |-> l.list[j].name]
         IN  IF IsBad(s) \/ Stored(s) \/ IsBad(l) THEN Bad
             ELSE IF Repeats(new) \/ ToSet(new) \cap names # {} \/ \E d \in ToSet(l.list) : d.init
             THEN Bad
             ELSE CMembers(t, l.end, types, members \o [j \in DOMAIN l.list |-> l.list[j].layers \o s.type],
                           names \cup ToSet(new))

\* The layers between the name and the type of the specifiers; `inner` has the
\* parameters of all the functions in the declarator, with their types.
CDeclarator(t, i, types) ==
    CASE Token(t, i) = "*" ->
           LET d == CDeclarator(t, i + 1, types)
           IN  IF IsBad(d) THEN Bad ELSE [d EXCEPT !.layers = @ \o <<Layer("pointer", <<>>)>>]
      [] Token(t, i) = "(" ->
           LET d == CDeclarator(t, i + 1, types)
           IN  IF IsBad(d) \/ Token(t, d.end) # ")" THEN Bad
               ELSE CSuffixes(t, types, [d EXCEPT !.end = @ + 1])
      [] Token(t, i) \in Names ->
           CSuffixes(t, types, [end |-> i + 1, name |-> t[i], layers |-> <<>>, inner |-> <<>>])
      [] OTHER -> Bad

CSuffixes(t, types, d) ==
    LET k == Token(t, d.end)
        params == CASE Token(t, d.end + 1) = ")" -> [end |-> d.end + 2, types |-> <<>>, inner |-> <<>>]
                    [] Token(t, d.end + 1) = "void" /\ Token(t, d.end + 2) = ")" ->
                         [end |-> d.end + 3, types |-> <<>>, inner |-> <<>>]
                    [] OTHER -> CParams(t, d.end + 1, types, <<>>, <<>>)
    IN  CASE k \in Sizes ->
               CSuffixes(t, types, [d EXCEPT !.end = @ + 1, !.layers = @ \o <<Layer(k, <<>>)>>])
          [] k = "(" ->
               IF IsBad(params) THEN Bad
               ELSE CSuffixes(t, types, [d EXCEPT !.end = params.end,
                                                  !.layers = @ \o <<Layer("function", params.types)>>,
                                                  !.inner = @ \o params.inner])
          [] OTHER -> d

\* A parameter hides the typedefs of its name; an array is a pointer to its
\* elements and a function a pointer to it.
Adjusted(type) ==
    CASE Outermost(type) \in Sizes -> Pointer(Tail(type))
      [] IsFuncType(type) -> Pointer(type)
      [] OTHER -> type

CParams(t, i, types, found, inner) ==
    LET s == CSpecifiers(t, i, types, NoKeywords, <<>>)
        d == CDeclarator(t, s.end, types)
        param == [name |-> d.name, type |-> d.layers \o s.type]
        params == Append(found, param)
        all == inner \o <<param>> \o d.inner
        adjusted == [j \in DOMAIN params |-> Adjusted(params[j].type)]
        hidden == [n \in DOMAIN types \ {d.name} |-> types[n]]
    IN  IF IsBad(s) \/ Stored(s) THEN Bad
        ELSE IF IsBad(d) \/ \E p \in ToSet(found) : p.name = d.name THEN Bad
        ELSE CASE Token(t, d.end) = ")" -> [end |-> d.end + 1, types |-> adjusted, inner |-> all]
               [] /\ Token(t, d.end) = "," /\ Token(t, d.end + 1) = "..."
                  /\ Token(t, d.end + 2) = ")" ->
                    [end |-> d.end + 3, types |-> Append(adjusted, Basic("...")), inner |-> all]
               [] OTHER -> IF Token(t, d.end) = "," THEN CParams(t, d.end + 1, hidden, params, all) ELSE Bad

-----------------------------------------------------------------------------
(* External declarations *)

\* A declaration of the name that may follow those in known.
Redeclares(known, node) ==
    /\ node.name \in DOMAIN known
    /\ LET k == known[node.name]
       IN  ~(k.as = "function" /\ node.as = "function" /\ ~(k.body /\ node.body))

RECURSIVE CDeclare(_, _)
CDeclare(known, nodes) ==
    IF nodes = <<>> THEN known
    ELSE LET n == Head(nodes)
             body == n.body \/ (n.name \in DOMAIN known /\ known[n.name].body)
         IN  CDeclare((n.name :> [n EXCEPT !.body = body]) @@ known, Tail(nodes))

TypedefsOf(known) ==
    [n \in {m \in DOMAIN known : known[m].as = "typedef"} |-> known[n].type]

\* One external declaration: the nodes it declares, with how its declarators
\* were written.
CExternal(t, i, known) ==
    LET types == TypedefsOf(known)
        s == CSpecifiers(t, i, types, NoKeywords, <<>>)
        typedef == s.counts["typedef"] > 0
        d == CDeclarator(t, s.end, types)
        body == ~IsBad(d) /\ Token(t, d.end) = "{}"
        l == IF body THEN [end |-> d.end + 1,
                           list |-> <<[name |-> d.name, layers |-> d.layers, inner |-> d.inner, init |-> FALSE]>>]
             ELSE CList(t, s.end, types, <<>>)
        As(type) == CASE typedef -> "typedef"
                      [] ~typedef /\ IsFuncType(type) -> "function"
                      [] OTHER -> "object"
        nodes == [j \in DOMAIN l.list |->
                    LET type == l.list[j].layers \o s.type
                    IN  [name |-> l.list[j].name, type |-> type, as |-> As(type), body |-> body]]
    IN  IF IsBad(s) THEN Bad
        ELSE IF Token(t, s.end) = ";" THEN [end |-> s.end + 1, nodes |-> <<>>, list |-> <<>>, counts |-> s.counts]
        ELSE IF IsBad(l) THEN Bad
        ELSE IF \/ \E j \in DOMAIN nodes :
                      \/ body /\ nodes[j].as # "function"
                      \/ l.list[j].init /\ nodes[j].as # "object"
                      \/ Redeclares(CDeclare(known, SubSeq(nodes, 1, j - 1)), nodes[j])
             THEN Bad
        ELSE [end |-> l.end, nodes |-> nodes, list |-> l.list, counts |-> s.counts]

\* The external declarations of the text up to the first that is none.
RECURSIVE CText(_, _, _)
CText(t, i, known) ==
    IF i > Len(t) THEN [valid |-> TRUE, externals |-> <<>>]
    ELSE LET e == CExternal(t, i, known)
         IN  IF IsBad(e) THEN [valid |-> FALSE, externals |-> <<>>]
             ELSE LET rest == CText(t, e.end, CDeclare(known, e.nodes))
                  IN  [rest EXCEPT !.externals = <<e>> \o @]

CProgram(t) == CText(t, 1, [n \in {} |-> 0])

=============================================================================
