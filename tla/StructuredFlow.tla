--------------------------- MODULE StructuredFlow ---------------------------
(***************************************************************************)
(* What C says about the flow of control through a tree of statements,     *)
(* without basic blocks: after evaluating one node, which nodes may be     *)
(* evaluated next.  It is the reference the basic blocks are compared with.*)
(*                                                                         *)
(* A tree is the flat list of Statements; nodes that are evaluated stand   *)
(* for themselves: an expression, the condition of an if, for or switch,   *)
(* the increment of a for (its end node), the condition of a do (its end   *)
(* node), a return, and the end of the function.                           *)
(***************************************************************************)
EXTENDS Statements

EndOf(t, i) == CHOOSE j \in DOMAIN t : t[j].opener = i /\ t[j].kind \in Closers

Around(t, j, kinds) ==
    {i \in 1 .. j - 1 : t[i].kind \in kinds /\ EndOf(t, i) > j}

Innermost(t, j, kinds) == Max(Around(t, j, kinds))

Breakable == {"for", "do", "switch"}

Loops == {"for", "do"}

\* A for is evaluated again at its increment if it has one.
Again(t, i) ==
    IF t[i].kind = "for" /\ ~t[i].inc THEN i ELSE EndOf(t, i)

\* The node that is evaluated first when control reaches position j of the
\* text: Arrival(t)[j].
Arrival(t) ==
    LET a[j \in DOMAIN t] ==
          CASE t[j].kind \in {"expr", "return", "if", "for", "switch", "enddo", "endfunc"} -> j
            [] t[j].kind \in {"block", "do", "case", "default", "endblock", "endif",
                              "endswitch", "endcase", "enddefault"} -> a[j + 1]
            [] t[j].kind = "else" -> a[EndOf(t, t[j].opener)]
            [] t[j].kind = "endfor" -> Again(t, t[j].opener)
            [] t[j].kind = "break" -> a[EndOf(t, Innermost(t, j, Breakable)) + 1]
            [] t[j].kind = "continue" -> Again(t, Innermost(t, j, Loops))
    IN  a

Labels(t, i, kinds) ==
    {j \in DOMAIN t : t[j].kind \in kinds /\ Innermost(t, j, {"switch"}) = i}

ElseOf(t, i) == {j \in DOMAIN t : t[j].kind = "else" /\ t[j].opener = i}

\* The positions control may go to from the evaluation of node i.
Targets(t, i) ==
    CASE t[i].kind = "expr" -> {i + 1}
      [] t[i].kind \in {"return", "endfunc"} -> {}
      [] t[i].kind = "if" ->
           {i + 1} \cup (IF ElseOf(t, i) = {} THEN {EndOf(t, i)} ELSE {j + 1 : j \in ElseOf(t, i)})
      [] t[i].kind = "for" -> {i + 1} \cup {j \in {EndOf(t, i) + 1} : t[i].cond}
      [] t[i].kind = "endfor" -> {t[i].opener}
      [] t[i].kind = "enddo" -> {t[i].opener + 1, i + 1}
      [] t[i].kind = "switch" ->
           Labels(t, i, {"case"}) \cup
             (IF Labels(t, i, {"default"}) = {} THEN {EndOf(t, i) + 1}
              ELSE Labels(t, i, {"default"}))

Successors(t, i) == {Arrival(t)[j] : j \in Targets(t, i)}

=============================================================================
