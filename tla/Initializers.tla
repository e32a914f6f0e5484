---------------------------- MODULE Initializers ----------------------------
(***************************************************************************)
(* Declarations of objects with initialisers: ParseInitializer, which turns*)
(* the braces into a list of values with the way to each, and the two ways *)
(* CodeGen::VisitVariableDecl uses it, one constant for a global object    *)
(* and one store for each value of a local one.                            *)
(*                                                                         *)
(* A text declares one or two objects of one type.  What is read for a     *)
(* global object is read twice: IsFuncDecl reads it ahead.  ParseInitial-  *)
(* izer calls itself; stack is its call stack, from its callers inwards.   *)
(***************************************************************************)
EXTENDS ObjectTypes

CONSTANT Texts  \* [type, shared, global, inits]: shared, if the type is a typedef's

VARIABLES
    text,
    object,     \* which object is read, and then translated
    ahead,      \* it is read ahead
    pos,        \* the place in its initialiser
    count,      \* the element count of the type, which an initialiser may set
    stack,      \* the calls that are open: [type, step, i, size]
    ret,        \* what the last call has returned, or "none" before it returns
    offsetList,
    initValues, \* of the object that is read: [offsets, type, value]
    declared,   \* the initValues of the objects before it
    objects,    \* the objects translated: sets of [offset, value]
    outcome     \* "parsing", "generating", "done", "reported" or "crashed"

callVars == <<pos, count, stack, ret, offsetList, initValues>>
vars == <<text, object, ahead, callVars, declared, objects, outcome>>

\* The type with this element count, if it is an array.
TypeWith(n) == IF text.type.kind = "array" THEN Array(text.type.parts[1], n) ELSE text.type

Tokens == text.inits[object]
Tok == IF pos <= Len(Tokens) THEN Tokens[pos] ELSE ";"

Stop(how) == outcome' = how /\ UNCHANGED <<text, object, ahead, callVars, declared, objects>>
Report == Stop("reported")
Crash == Stop("crashed")

-----------------------------------------------------------------------------
(* ParseInitializer *)

Frame(t, step) == [type |-> t, step |-> step, i |-> 0, size |-> Count(t)]

Top == Last(stack)
Parsing(step) == outcome = "parsing" /\ stack # <<>> /\ Top.step = step

\* A call of ParseInitializer by the one that is open.
CallFrom(frame, t) == stack' = Append(Append(Front(stack), frame), Frame(t, "call")) /\ ret' = "none"

\* The end of a call, with or without the braced list behind it.
Return(value) == stack' = Front(stack) /\ ret' = value

Quiet == UNCHANGED <<text, object, ahead, declared, objects, outcome>>

HasLBrace == Len(stack) > 1 \/ Tokens[1] = "{"

EndOfList ==
    /\ Parsing("call") /\ Tok = "}"
    /\ IF HasLBrace THEN Return("end") /\ UNCHANGED <<pos, count, offsetList, initValues>> /\ Quiet
       ELSE Report

InitValue(t, value, offsets) == [offsets |-> offsets, type |-> t.kind, value |-> value]

\* ParseStringInitializer on the array of the open call.
Characters(t, s) ==
    LET n == IF t.count < 0 THEN Len(s) + 1 ELSE t.count
    IN  [k \in 1..n |-> InitValue(t.parts[1], IF k <= Len(s) THEN s[k] ELSE Zero, Append(offsetList, k - 1))]

AtString(p) == p <= Len(Tokens) /\ IsStringArrayType(Top.type) /\ Tokens[p] \in DOMAIN Strings

ReadString(p) ==
    LET s == Strings[Tokens[p]]
    IN  IF Top.type.count >= 0 /\ Top.type.count < Len(s) THEN Report
        ELSE /\ initValues' = initValues \o Characters(Top.type, s)
             /\ count' = IF Top.type.count < 0 THEN Len(s) + 1 ELSE count
             /\ pos' = p + 1
             /\ IF p = pos THEN Return("more")
                ELSE stack' = Append(Front(stack), [Top EXCEPT !.step = "close"]) /\ UNCHANGED ret
             /\ UNCHANGED offsetList /\ Quiet

StringInitializer == Parsing("call") /\ AtString(pos) /\ ReadString(pos)

BracedString == Parsing("call") /\ Tok = "{" /\ AtString(pos + 1) /\ ReadString(pos + 1)

\* Any other list; that of a scalar is only its braces.
OpenBrace ==
    /\ Parsing("call") /\ Tok = "{" /\ ~AtString(pos + 1)
    /\ pos' = pos + 1
    /\ stack' = Append(Front(stack), [Top EXCEPT !.step = IF IsScalar(Top.type) THEN "close" ELSE "list"])
    /\ UNCHANGED <<count, ret, offsetList, initValues>> /\ Quiet

\* ParseAssignExpr, on a constant.
AssignExpr ==
    /\ Parsing("call") /\ Tok \notin {"{", "}"} /\ ~AtString(pos)
    /\ IF Tok \in {",", ";"} THEN Report
       ELSE /\ initValues' = Append(initValues, InitValue(Top.type, Tok, offsetList))
            /\ pos' = pos + 1
            /\ Return("more")
            /\ UNCHANGED <<count, offsetList>> /\ Quiet

\* The next turn of a list's loop: an array without a length goes on to the brace.
TurnTooFar ==
    /\ Parsing("list")
    /\ Top.i <= Top.size \/ Top.size < 0
    /\ pos' = IF Top.i > 0 /\ Tok = "," THEN pos + 1 ELSE pos
    /\ offsetList' = Append(offsetList, Top.i)
    /\ CallFrom([Top EXCEPT !.step = "element"], Part(Top.type, 0))
    /\ UNCHANGED <<count, initValues>> /\ Quiet

Turn ==
    /\ Parsing("list")
    /\ Top.i < Top.size \/ Top.size < 0
    /\ pos' = IF Top.i > 0 /\ Tok = "," THEN pos + 1 ELSE pos
    /\ offsetList' = Append(offsetList, Top.i)
    /\ CallFrom([Top EXCEPT !.step = "element"], Part(Top.type, Top.i))
    /\ UNCHANGED <<count, initValues>> /\ Quiet

\* Back from an element: the closing brace in its place ends the list.
NextElementKeepsOffset ==
    /\ Parsing("element") /\ ret # "none"
    /\ offsetList' = IF ret = "end" THEN offsetList ELSE Front(offsetList)
    /\ stack' = Append(Front(stack), IF ret = "end" THEN [Top EXCEPT !.step = "close"]
                                     ELSE [Top EXCEPT !.step = "list", !.i = @ + 1])
    /\ count' = IF ret = "end" /\ Top.size < 0 THEN Top.i ELSE count
    /\ UNCHANGED <<pos, ret, initValues>> /\ Quiet

NextElement ==
    /\ Parsing("element") /\ ret # "none"
    /\ offsetList' = Front(offsetList)
    /\ stack' = Append(Front(stack), IF ret = "end" THEN [Top EXCEPT !.step = "close"]
                                     ELSE [Top EXCEPT !.step = "list", !.i = @ + 1])
    /\ count' = IF ret = "end" /\ Top.size < 0 THEN Top.i ELSE count
    /\ UNCHANGED <<pos, ret, initValues>> /\ Quiet

\* Every element has been read.
LastElement ==
    /\ Parsing("list") /\ Top.size >= 0 /\ Top.i >= Top.size
    /\ stack' = Append(Front(stack), [Top EXCEPT !.step = "close"])
    /\ UNCHANGED <<pos, count, ret, offsetList, initValues>> /\ Quiet

CloseBrace ==
    /\ Parsing("close")
    /\ IF Tok # "}" THEN Report
       ELSE /\ pos' = pos + 1
            /\ Return("more")
            /\ UNCHANGED <<count, offsetList, initValues>> /\ Quiet

-----------------------------------------------------------------------------
(* The declarations *)

\* The k-th object is read with an element count of n.  A declarator of its own
\* makes the type anew each time that it is read.
Begin(k, isAhead, n) ==
    /\ object' = k
    /\ ahead' = isAhead
    /\ pos' = 1
    /\ count' = n
    /\ stack' = IF text.inits[k] = <<>> THEN <<>> ELSE <<Frame(TypeWith(n), "call")>>
    /\ ret' = "none"
    /\ offsetList' = <<0>>
    /\ initValues' = <<>>
    /\ UNCHANGED <<text, objects, outcome>>

Init ==
    /\ text \in Texts
    /\ object = 1
    /\ ahead = text.global
    /\ pos = 1
    /\ count = text.type.count
    /\ stack = IF text.inits[1] = <<>> THEN <<>> ELSE <<Frame(text.type, "call")>>
    /\ ret = "none"
    /\ offsetList = <<0>>
    /\ initValues = <<>>
    /\ declared = <<>>
    /\ objects = <<>>
    /\ outcome = "parsing"

NextCount == IF text.shared THEN count ELSE text.type.count

EndOfObject == outcome = "parsing" /\ stack = <<>>

NoSemicolon == EndOfObject /\ Tok # ";" /\ Report

\* IsFuncDecl goes back to the beginning of what was read ahead.
ReadAgain ==
    /\ EndOfObject /\ Tok = ";" /\ ahead
    /\ Begin(object, FALSE, NextCount)
    /\ UNCHANGED declared

Declaration == [values |-> initValues, count |-> count]

NextObject ==
    /\ EndOfObject /\ Tok = ";" /\ ~ahead /\ object < Len(text.inits)
    /\ declared' = Append(declared, Declaration)
    /\ Begin(object + 1, text.global, NextCount)

LastObject ==
    /\ EndOfObject /\ Tok = ";" /\ ~ahead /\ object = Len(text.inits)
    /\ declared' = Append(declared, Declaration)
    /\ object' = 1
    /\ outcome' = "generating"
    /\ UNCHANGED <<text, ahead, callVars, objects>>

-----------------------------------------------------------------------------
(* VisitVariableDecl *)

\* A union's LLVM type has one element, its largest member.
Largest(t) == Min({k \in DOMAIN t.parts : \A m \in ToSet(t.parts) : m.size <= t.parts[k].size})
ElementCount(t) == Count(t)
Element(t, k) == IF t.kind = "union" THEN t.parts[Largest(t)] ELSE Part(t, k)

\* CreateInBoundsGEP: where the indices lead, if they stay within the LLVM type.
Address(t, indices) ==
    FoldLeft(LAMBDA at, k :
                 IF at.ok /\ ~IsScalar(at.type) /\ (at.type.kind = "array" \/ k < ElementCount(at.type))
                 THEN [ok |-> TRUE, type |-> Element(at.type, k), offset |-> at.offset + PartOffset(at.type, k)]
                 ELSE [at EXCEPT !.ok = FALSE],
             [ok |-> TRUE, type |-> t, offset |-> 0], indices)

ScalarKinds == {"int", "char", "double"}

Stored(offset, value) == [offset |-> offset, value |-> value]

Bad == [ok |-> FALSE, memory |-> {}]
Good(memory) == [ok |-> TRUE, memory |-> memory]

\* A store for each value.  A single value is stored where the object starts.  The
\* value is cast to its type, for which an array or record is no destination.
StoreEach(t, values) ==
    CASE values = <<>> -> Good({})
      [] Len(values) = 1 -> IF values[1].type \in ScalarKinds THEN Good({Stored(0, values[1].value)}) ELSE Bad
      [] OTHER ->
           IF /\ t.kind \in {"array", "struct"}
              /\ \A v \in ToSet(values) : v.type \in ScalarKinds /\ Address(t, Tail(v.offsets)).ok
           THEN Good({Stored(Address(t, Tail(v.offsets)).offset, v.value) : v \in ToSet(values)})
           ELSE Bad

\* GetInitValueByOffset
WithLength(values, offsets) == SelectSeq(values, LAMBDA v : Len(v.offsets) = Len(offsets))
WithOffsets(values, offsets) == SelectSeq(values, LAMBDA v : v.offsets = offsets)

\* GetInitialValue, of the part of a global object that the offsets lead to, at a
\* place in memory.  The constant for a missing integer has the type int whatever is
\* needed; there is none for a floating point value.
RECURSIVE InitialValue(_, _, _, _)
InitialValue(t, values, offsets, place) ==
    IF t.kind = "double" THEN Bad
    ELSE IF IsScalar(t)
    THEN LET found == WithOffsets(values, offsets)
         IN  CASE found # <<>> -> Good({Stored(place, Head(found).value)})
               [] found = <<>> /\ t.kind = "int" -> Good({Stored(place, Zero)})
               [] OTHER -> Bad
    ELSE LET part(k) == InitialValue(Element(t, k), values, Append(offsets, k), place + PartOffset(t, k))
             ks == 0..(ElementCount(t) - 1)
         IN  IF \A k \in ks : part(k).ok THEN Good(UNION {part(k).memory : k \in ks}) ELSE Bad

\* A global object without a constant is left to be defined elsewhere.
GlobalObject(t, values) == IF t.kind = "double" THEN Good({}) ELSE InitialValue(t, values, <<0>>, 0)

VisitVariableDecl ==
    /\ outcome = "generating" /\ object <= Len(declared)
    /\ LET d == declared[object]
           n == IF text.shared THEN declared[Len(declared)].count ELSE d.count
           made == IF text.global THEN GlobalObject(TypeWith(n), d.values) ELSE StoreEach(TypeWith(n), d.values)
       IN  IF made.ok
           THEN /\ objects' = Append(objects, [memory |-> made.memory, count |-> n])
                /\ object' = object + 1
                /\ UNCHANGED <<text, ahead, callVars, declared, outcome>>
           ELSE Crash

Finish ==
    /\ outcome = "generating" /\ object > Len(declared)
    /\ outcome' = "done"
    /\ UNCHANGED <<text, object, ahead, callVars, declared, objects>>

Done == outcome \in {"done", "reported", "crashed"} /\ UNCHANGED vars

ParseInitializer ==
    \/ EndOfList \/ StringInitializer \/ BracedString \/ OpenBrace \/ AssignExpr
    \/ Turn \/ NextElement \/ LastElement \/ CloseBrace

Next ==
    \/ ParseInitializer
    \/ NoSemicolon \/ ReadAgain \/ NextObject \/ LastObject
    \/ VisitVariableDecl \/ Finish \/ Done

Spec == Init /\ [][Next]_vars

=============================================================================
