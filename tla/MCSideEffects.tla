--------------------------- MODULE MCSideEffects ---------------------------
(* Constants for the runs of SideEffects. *)
EXTENDS SideEffectsProperties, TLC

Symmetry == Permutations(Workers)

=============================================================================
