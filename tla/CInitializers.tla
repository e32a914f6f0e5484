---------------------------- MODULE CInitializers ----------------------------
(***************************************************************************)
(* What an initialiser means in C (6.7.9): the tokens are read from left to*)
(* right and give the parts of the object values in turn.  Braces may be   *)
(* left out around the initialisers of a part, a comma may end a braced    *)
(* list, and an empty list, which C has only since 2023, is taken too.     *)
(* Designators are left out.                                               *)
(*                                                                         *)
(* A reading is a record: ok, the place behind it, the values with their   *)
(* places in the object, the number of elements seen, and in notes what    *)
(* this compiler reads differently.                                        *)
(***************************************************************************)
EXTENDS ObjectTypes

Reading(ok, next, values, seen, notes) ==
    [ok |-> ok, next |-> next, values |-> values, seen |-> seen, notes |-> notes]

Wrong(p, notes) == Reading(FALSE, p, {}, 0, notes)

TokenAt(tokens, p) == IF p <= Len(tokens) THEN tokens[p] ELSE ";"

Given(offset, value) == [offset |-> offset, value |-> value]

\* A string fills a character array with its characters, a null character where
\* there is room, and zeros.
StringReading(t, tokens, p, offset) ==
    LET s == Strings[tokens[p]]
        n == IF t.count < 0 THEN Len(s) + 1 ELSE t.count
    IN  Reading(Len(s) <= n, p + 1, {Given(offset + k - 1, IF k <= Len(s) THEN s[k] ELSE Zero) : k \in 1..n}, n, {})

\* Behind the only element of a braced list: the closing brace, or a comma and the brace.
ClosedBehind(r, tokens, note) ==
    LET comma == TokenAt(tokens, r.next) = ","
        brace == IF comma THEN r.next + 1 ELSE r.next
    IN  [r EXCEPT !.ok = @ /\ TokenAt(tokens, brace) = "}",
                  !.next = brace + 1,
                  !.notes = @ \cup note \cup IF comma THEN {"trailingComma"} ELSE {}]

RECURSIVE Value(_, _, _, _), Fill(_, _, _, _, _, _)

\* The initialiser at p, of a part of type t.
Value(t, tokens, p, offset) ==
    LET first == TokenAt(tokens, p)
        second == TokenAt(tokens, p + 1)
        str(q) == IsStringArrayType(t) /\ TokenAt(tokens, q) \in DOMAIN Strings
    IN  CASE str(p) -> StringReading(t, tokens, p, offset)
          [] first = "{" /\ str(p + 1) -> ClosedBehind(StringReading(t, tokens, p + 1, offset), tokens, {})
          [] IsScalar(t) /\ first \in Numbers -> Reading(TRUE, p + 1, {Given(offset, first)}, 0, {})
          [] IsScalar(t) /\ first \in DOMAIN Strings -> Wrong(p, {"stringValue"})
          [] IsScalar(t) /\ first = "{" /\ second = "}" -> Reading(TRUE, p + 2, {}, 0, {})
          [] IsScalar(t) /\ first = "{" /\ second # "}" ->
               ClosedBehind(Value(t, tokens, p + 1, offset), tokens, {"bracedValue"})
          [] ~IsScalar(t) /\ first = "{" /\ ~str(p + 1) -> Fill(t, 0, tokens, p + 1, offset, TRUE)
          [] ~IsScalar(t) /\ first # "{" /\ ~str(p) /\ first \in Numbers \cup DOMAIN Strings ->
               LET r == Fill(t, 0, tokens, p, offset, FALSE) IN [r EXCEPT !.notes = @ \cup {"bracesLeftOut"}]
          [] OTHER -> Wrong(p, {})

\* The parts of t from the k-th on, in a list of its own or in that of what t is part of.
Fill(t, k, tokens, p, offset, braced) ==
    LET full == Count(t) >= 0 /\ k >= Count(t)
        r == Value(Part(t, k), tokens, p, offset + PartOffset(t, k))
        after == TokenAt(tokens, r.next)
        rest(q) == LET others == Fill(t, k + 1, tokens, q, offset, braced)
                   IN  [others EXCEPT !.values = @ \cup r.values, !.notes = @ \cup r.notes]
        stop(q, notes) == Reading(TRUE, q, r.values, k + 1, r.notes \cup notes)
        last == Count(t) >= 0 /\ k + 1 >= Count(t)
    IN  IF braced /\ TokenAt(tokens, p) = "}" THEN Reading(TRUE, p + 1, {}, k, {})
        ELSE IF full THEN Wrong(p, {})
        ELSE IF ~r.ok THEN Wrong(r.next, r.notes)
        ELSE IF braced /\ after = "," /\ TokenAt(tokens, r.next + 1) = "}"
             THEN stop(r.next + 2, IF last THEN {"trailingComma"} ELSE {})
        ELSE IF braced /\ after = "," THEN rest(r.next + 1)
        ELSE IF braced /\ after = "}" THEN stop(r.next + 1, {})
        ELSE IF braced THEN Wrong(r.next, r.notes \cup {"missingComma"})
        ELSE IF last \/ after # "," \/ TokenAt(tokens, r.next + 1) = "}" THEN stop(r.next, {})
        ELSE rest(r.next + 1)

\* The initialiser of an object of type t.
Initializer(t, tokens) ==
    IF tokens = <<>> THEN Reading(TRUE, 1, {}, 0, {})
    ELSE LET r == Value(t, tokens, 1, 0)
         IN  [r EXCEPT !.ok = /\ @ /\ r.next = Len(tokens) + 1
                              /\ IsScalar(t) \/ tokens[1] = "{" \/ (IsStringArrayType(t) /\ tokens[1] \in DOMAIN Strings)]

\* The scalars in an object, of a union those of the first member.
RECURSIVE Leaves(_, _)
Leaves(t, offset) ==
    IF IsScalar(t) THEN {[offset |-> offset, kind |-> t.kind]}
    ELSE UNION {Leaves(Part(t, k), offset + PartOffset(t, k)) : k \in 0..(Count(t) - 1)}

\* The value that the initialiser gives the scalar at this place: zero, if it names none.
ValueAt(r, offset) ==
    IF \E v \in r.values : v.offset = offset THEN (CHOOSE v \in r.values : v.offset = offset).value ELSE Zero

=============================================================================
