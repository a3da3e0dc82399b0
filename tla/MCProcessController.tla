------------------------- MODULE MCProcessController ------------------------
(* Instances of ProcessController for TLC. *)
EXTENDS ProcessController, TLC

(* for safety only *)
Symmetry == Permutations(Workers)

=============================================================================
