----------------------------- MODULE MCRecovery -----------------------------
(* Instances of Recovery for TLC.                                          *)
EXTENDS Recovery, TLC

AllUses == Apps \X Vols
NoPrefixes == {}

(* for the known deviations: two volumes of a pod, the name of one a       *)
(* prefix of the other's, and subpaths of one pod or one volume only       *)
NoUses == {}
OneApp == CHOOSE a \in Apps : TRUE
OneVol == CHOOSE v \in Vols : TRUE
OneSub == {u \in AllUses : u[1] = OneApp}
OtherSub == {u \in AllUses : u[2] # OneVol}
Chain == {<<v, w>> \in Vols \X Vols : v = OneVol /\ w # OneVol}

(* Only one of the pods is ever deleted: the others keep the mount pod. *)
OneDeleted ==
    /\ Init
    /\ [][Next /\ \A a \in Apps \ {OneApp} : app'[a] # "deleting"]_vars
    /\ Fairness

Symmetry == Permutations(Workers)

=============================================================================
