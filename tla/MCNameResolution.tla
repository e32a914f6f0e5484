--------------------------- MODULE MCNameResolution ---------------------------
(* Constant values for the model checker. *)
EXTENDS NameResolution

Symmetry == Permutations(Names)

=============================================================================
