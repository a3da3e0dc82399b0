----------------------------- MODULE MCMountPod -----------------------------
(* Model-checking instances of MountPod: symmetric threads and targets.    *)
EXTENDS MountPod, TLC

Symmetry == Permutations(Targets) \cup Permutations(Workers)
=============================================================================
