------------------------- MODULE MCRecordTranslation -------------------------
(* Constant values for the model checker. *)
EXTENDS RecordTranslation

\* int and char[5].
SomePrims == {[size |-> 4, align |-> 4], [size |-> 5, align |-> 1]}

OnlyInt == {[size |-> 4, align |-> 4]}

Symmetry == Permutations(Tags)

=============================================================================
