----------------------------- MODULE MCProcess ------------------------------
(* Instances of ProcessNode for TLC. *)
EXTENDS ProcessNode, TLC

(* for safety only *)
Symmetry == Permutations(Targets) \cup Permutations(Workers)

=============================================================================
