-------------------------- MODULE MCMountPodRefines -------------------------
(* Model-checking instance of MountPodRefines: symmetric threads and       *)
(* targets.                                                                *)
EXTENDS MountPodRefines, TLC

Symmetry == Permutations(Targets) \cup Permutations(Workers)
=============================================================================
