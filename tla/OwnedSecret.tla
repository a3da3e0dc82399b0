---------------------------- MODULE OwnedSecret -----------------------------
(***************************************************************************)
(* The secret a mount pod, or a volume job, reads its environment from.    *)
(* It carries the uid of the object it was created for as its owner: that  *)
(* object exists, or it is gone and the garbage collector of the cluster   *)
(* is free to remove the secret.                                           *)
(***************************************************************************)

Secret == {"absent", "owned", "orphaned"}

(* createOrUpdateSecret for an owner that exists or is gone already.  A    *)
(* secret that exists gets new data and keeps the owner it has.            *)
CreateOrUpdateSecret(secret, ownerExists) ==
    IF secret # "absent" THEN secret
    ELSE IF ownerExists THEN "owned" ELSE "orphaned"

(* The owner is removed. *)
WithoutOwner(secret) == IF secret = "owned" THEN "orphaned" ELSE secret

=============================================================================
