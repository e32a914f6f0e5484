----------------------------- MODULE TypeLayers -----------------------------
(***************************************************************************)
(* A declared type is the sequence of its layers, from the outermost to the*)
(* type that the specifiers name: int *a[2] is an array, a pointer and int.*)
(* A function's layer has the types of its parameters, a record's those of *)
(* its members.                                                            *)
(***************************************************************************)
EXTENDS Sequences

Layer(layer, parts) == <<layer, parts>>

Basic(type) == <<Layer(type, <<>>)>>

\* An array's layer is its suffix, with the size.
Sizes == {"[2]", "[3]"}

Pointer(type) == <<Layer("pointer", <<>>)>> \o type
ArrayOf(suffix, type) == <<Layer(suffix, <<>>)>> \o type
Function(params, type) == <<Layer("function", params)>> \o type
Record(members) == <<Layer("record", members)>>

Outermost(type) == type[1][1]

IsFuncType(type) == Outermost(type) = "function"

=============================================================================
