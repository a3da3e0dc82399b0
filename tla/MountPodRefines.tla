--------------------------- MODULE MountPodRefines --------------------------
(* The mount pod as the resource of RefCount: registered users are the     *)
(* references in the annotations of a pod nobody is deleting, served users *)
(* the running application pods whose volume the kubelet holds mounted.    *)
EXTENDS MountPod

IsUp == api.phase = "live"

(* References of a pod that is being deleted count no more: it is replaced *)
(* by a new one.                                                           *)
Registered == IF IsUp THEN api.refs ELSE {}

Deadline == IF IsUp THEN api.delayAt ELSE 0

Served == {t \in Targets : app[t] = "running" /\ vol[t] = "mounted"}

Shared == INSTANCE RefCount WITH
    Users   <- Targets,
    Lingers <- HasDelay,
    up      <- IsUp,
    users   <- Registered,
    due     <- Deadline,
    clock   <- now,
    served  <- Served

(* JMount and JUmount, with their read-modify-write of the annotations in  *)
(* several requests, restarts of the plugin between any two of them and    *)
(* calls the kubelet gave up on, implement the shared resource: a pod ends *)
(* only unused and after its deadline, and whoever is told the volume is   *)
(* there stays registered at a pod that is up until it is released.        *)
ImplementsRefCount == Shared!Spec

=============================================================================
