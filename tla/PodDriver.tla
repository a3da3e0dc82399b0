----------------------------- MODULE PodDriver ------------------------------
(***************************************************************************)
(* The reconciler thread: doReconcile and PodDriver.Run for the mount pod, *)
(* with checkAnnotations, podErrorHandler and podDeletedHandler.           *)
(*                                                                         *)
(* A round starts from the kubelet's pod list: a copy of the mount pod,    *)
(* which may be old when it is used, and the application pods that exist   *)
(* and are not being deleted (mit.deletedPods), read no earlier than the   *)
(* copy of the mount pod.  Both are kept for the whole round; on a         *)
(* conflict only the mount pod is read again.                              *)
(***************************************************************************)
EXTENDS PodApi

VARIABLES
    alive,          \* targets whose pod deletedPods maps to false
    again,          \* checkAnnotations runs a second time in this round
    existTargets    \* podDeletedHandler's existTargets

driverVars == <<alive, again, existTargets>>

RecLabels == {"idle", "r_apps", "r_lock", "r_upd", "r_delayUpd", "r_del",
              "r_refetch", "r_status", "r_finUpd", "r_waitLock", "r_waitGone",
              "r_recreate", "r_merge", "e_lock", "e_finUpd", "e_del",
              "e_waitGone", "e_recreate"}

RecCritical == {"r_upd", "r_delayUpd", "r_del", "r_waitGone", "r_recreate",
                "r_merge", "e_finUpd", "e_del", "e_waitGone", "e_recreate"}

current == view[Rec]

(* Run returns: the round is over for this pod. *)
ReturnRun ==
    /\ Release(Rec, "idle")
    /\ alive' = {} /\ again' = FALSE /\ existTargets' = {}
    /\ view' = [view EXCEPT ![Rec] = Absent]

ReturnNoWrite ==
    /\ ReturnRun
    /\ fresh' = fresh \ {Rec}
    /\ UNCHANGED <<api, secret>>

-----------------------------------------------------------------------------
(* doReconcile: the pod list *)

RecList ==
    /\ pc[Rec] = "idle"
    /\ \/ /\ api.phase # "absent"
          /\ GetPod(Rec)
          /\ Step(Rec, "r_apps")
       \/ /\ api.phase = "absent"       \* nothing to do in this round
          /\ NoRequest
          /\ UNCHANGED <<lock, pc>>
    /\ UNCHANGED driverVars

(* setPodsStatus; "running" are the targets of the running pods *)
RecApps(running) ==
    /\ pc[Rec] = "r_apps"
    /\ alive' = running
    /\ Step(Rec, "r_lock")
    /\ NoRequest
    /\ UNCHANGED <<again, existTargets>>

-----------------------------------------------------------------------------
(* checkAnnotations *)

(* the annotations that are kept: references of pods that exist, and the   *)
(* deadline unless one of them is left                                     *)
Pruned(p) ==
    [p EXCEPT !.refs = @ \cap alive,
              !.delayAt = IF p.refs \cap alive # {} THEN 0 ELSE @]

(* mutant: a pod whose references are gone is left alone *)
AfterPrune_Keep(p) == "r_status"

(* the end of checkAnnotations, for the pruned copy p *)
AfterPrune(p) ==
    IF ~HasRef(p) /\ p.phase = "live"
    THEN CASE ShouldDelay(p) = "delete" -> "r_del"
           [] ShouldDelay(p) = "mark"   -> "r_delayUpd"
           [] OTHER                     -> "r_status"
    ELSE "r_status"

(* lock and read the copy's annotations *)
CheckAnnotations ==
    /\ pc[Rec] = "r_lock"
    /\ lock = Nobody
    /\ LET next == IF Pruned(current) # current THEN "r_upd"
                   ELSE AfterPrune(current)
       IN  /\ Goto(Rec, next)
           /\ lock' = IF next = "r_status" THEN Nobody ELSE Rec
    /\ NoRequest
    /\ UNCHANGED driverVars

(* An Update in checkAnnotations failed: Run starts over once, with the    *)
(* pod of the API server, if it was a conflict.                            *)
CheckFails ==
    /\ Rec \notin fresh
    /\ IF api.phase # "absent" /\ ~again
       THEN /\ Release(Rec, "r_refetch")
            /\ DropCopy(Rec)
            /\ UNCHANGED driverVars
       ELSE ReturnNoWrite

(* mutant: the copy is written whatever version the server has *)
PruneRefs_Force ==
    /\ pc[Rec] = "r_upd"
    /\ api.phase # "absent"
    /\ WritePod(Pruned(current))
    /\ view' = [view EXCEPT ![Rec] = Pruned(current)]
    /\ Release(Rec, "r_status")
    /\ UNCHANGED driverVars

PruneRefs ==
    /\ pc[Rec] = "r_upd"
    /\ \/ /\ Rec \in fresh
          /\ WritePod(Pruned(current))
          /\ view' = [view EXCEPT ![Rec] = Pruned(current)]
          /\ LET next == AfterPrune(Pruned(current))
             IN  IF next = "r_status" THEN Release(Rec, next)
                                      ELSE Step(Rec, next)
          /\ UNCHANGED driverVars
       \/ CheckFails

(* mutant: the deadline is patched into the pod the server has *)
RecMark_Patch ==
    /\ pc[Rec] = "r_delayUpd"
    /\ api.phase # "absent"
    /\ WritePod([api EXCEPT !.delayAt = TimeAfterDelay])
    /\ Release(Rec, "r_status")
    /\ UNCHANGED view
    /\ UNCHANGED driverVars

(* ShouldDelay's Update *)
RecMark ==
    /\ pc[Rec] = "r_delayUpd"
    /\ \/ /\ Rec \in fresh
          /\ LET p == [current EXCEPT !.delayAt = TimeAfterDelay]
             IN  WritePod(p) /\ view' = [view EXCEPT ![Rec] = p]
          /\ Release(Rec, "r_status")
          /\ UNCHANGED driverVars
       \/ CheckFails

RecDelete ==
    /\ pc[Rec] = "r_del"
    /\ \/ /\ DeletePod
          /\ Release(Rec, "r_status")
          /\ UNCHANGED view
          /\ UNCHANGED driverVars
       \/ api.phase = "absent" /\ ReturnNoWrite

(* Run, after a conflict: alive is not read again *)
RecRefetch ==
    /\ pc[Rec] = "r_refetch"
    /\ \/ api.phase = "absent" /\ ReturnNoWrite
       \/ /\ api.phase # "absent"
          /\ GetPod(Rec)
          /\ Step(Rec, "r_lock")
          /\ again' = TRUE
          /\ UNCHANGED <<alive, existTargets>>

-----------------------------------------------------------------------------
(* Run, the dispatch on the status of the copy and, for a pod that looked  *)
(* deleted or failed, on the status the API server has now.  What the      *)
(* ready handler does to bind mounts is not part of this module.           *)
IsDeletedOrError(p) ==
    \/ p.phase = "terminating"
    \/ p.stat \in {"error", "resource"}

Dispatch ==
    /\ pc[Rec] = "r_status"
    /\ LET deleted == api.phase = "terminating" /\ api.fin
                      /\ api.stat # "resource"
           evicted == api.phase = "live" /\ api.stat = "resource" /\ api.res
       IN  \/ /\ IsDeletedOrError(current) /\ (deleted \/ evicted)
              /\ GetPod(Rec)
              /\ Step(Rec, IF deleted THEN "r_finUpd" ELSE "e_lock")
              /\ UNCHANGED driverVars
           \/ /\ ~(IsDeletedOrError(current) /\ (deleted \/ evicted))
              /\ ReturnNoWrite

-----------------------------------------------------------------------------
(* podDeletedHandler *)

(* mutant: the handler is done when the finalizer is off *)
RemoveFinalizer_NoRecreate ==
    /\ pc[Rec] = "r_finUpd"
    /\ \/ /\ Rec \in fresh
          /\ WritePod([current EXCEPT !.fin = FALSE])
          /\ ReturnRun
       \/ /\ Rec \notin fresh
          /\ ReturnNoWrite

RemoveFinalizer ==
    /\ pc[Rec] = "r_finUpd"
    /\ LET p == [current EXCEPT !.fin = FALSE]
       IN  \/ /\ Rec \in fresh /\ HasRef(p)
              /\ WritePod(p)
              /\ view' = [view EXCEPT ![Rec] = p]
              /\ existTargets' = p.refs
              /\ Step(Rec, "r_waitLock")
              /\ UNCHANGED <<alive, again>>
           \/ /\ Rec \in fresh /\ ~HasRef(p)
              /\ WritePod(p)
              /\ ReturnRun
           \/ /\ Rec \notin fresh
              /\ ReturnNoWrite

RecWaitLock ==
    /\ pc[Rec] = "r_waitLock"
    /\ Acquire(Rec, "r_waitGone")
    /\ NoRequest
    /\ UNCHANGED driverVars

RecWaitGone ==
    /\ pc[Rec] = "r_waitGone"
    /\ \/ api.phase = "absent" /\ Step(Rec, "r_recreate") /\ NoRequest
       \/ api.phase = "live" /\ Step(Rec, "r_merge") /\ GetPod(Rec)
    /\ UNCHANGED driverVars

(* "old pod can't be deleted within 1min" *)
RecGiveUp ==
    /\ pc[Rec] = "r_waitGone"
    /\ WaitExpires
    /\ ReturnNoWrite

(* The pod created from an old copy: its annotations and spec. *)
Recreated(p) == [p EXCEPT !.phase = "live", !.fin = TRUE, !.stat = "pending"]

Recreate ==
    /\ pc[Rec] = "r_recreate"
    /\ \/ /\ api.phase = "absent"
          /\ WritePod(Recreated(current))
          /\ ReturnRun
       \/ api.phase # "absent" /\ ReturnNoWrite

(* "pod is created elsewhere": a failed Update is only logged *)
Merge ==
    /\ pc[Rec] = "r_merge"
    /\ \/ /\ Rec \in fresh
          /\ WritePod([current EXCEPT !.refs = @ \cup existTargets])
          /\ ReturnRun
       \/ Rec \notin fresh /\ ReturnNoWrite

-----------------------------------------------------------------------------
(* podErrorHandler, for a pod the node has no resources for *)

ErrLock ==
    /\ pc[Rec] = "e_lock"
    /\ Acquire(Rec, "e_finUpd")
    /\ NoRequest
    /\ UNCHANGED driverVars

ErrRemoveFinalizer ==
    /\ pc[Rec] = "e_finUpd"
    /\ \/ /\ Rec \in fresh
          /\ LET p == [current EXCEPT !.fin = FALSE]
             IN  WritePod(p) /\ view' = [view EXCEPT ![Rec] = p]
          /\ Step(Rec, "e_del")
          /\ UNCHANGED driverVars
       \/ Rec \notin fresh /\ ReturnNoWrite

ErrDelete ==
    /\ pc[Rec] = "e_del"
    /\ \/ /\ DeletePod
          /\ Step(Rec, "e_waitGone")
          /\ UNCHANGED view
          /\ UNCHANGED driverVars
       \/ api.phase = "absent" /\ ReturnNoWrite

ErrWaitGone ==
    /\ pc[Rec] = "e_waitGone"
    /\ api.phase = "absent"
    /\ Step(Rec, "e_recreate")
    /\ NoRequest
    /\ UNCHANGED driverVars

(* 120 polls, 500 microseconds apart *)
ErrGiveUp ==
    /\ pc[Rec] = "e_waitGone"
    /\ api.phase # "absent"
    /\ ReturnNoWrite

ErrRecreate ==
    /\ pc[Rec] = "e_recreate"
    /\ \/ /\ api.phase = "absent"
          /\ WritePod([Recreated(current) EXCEPT !.res = FALSE])
          /\ ReturnRun
       \/ api.phase # "absent" /\ ReturnNoWrite

-----------------------------------------------------------------------------
(* Any request but a conflict or a missing pod fails: Run returns.         *)
RecApiError ==
    /\ OneShot("apiError")
    /\ pc[Rec] \in (RecCritical \cup {"r_refetch", "r_status", "r_finUpd"})
    /\ ReturnNoWrite

RunStep ==
    /\ \/ /\ \/ CheckAnnotations \/ PruneRefs \/ RecMark \/ RecDelete
             \/ RecRefetch \/ Dispatch
             \/ RemoveFinalizer \/ RecWaitLock \/ RecWaitGone \/ RecGiveUp
             \/ Recreate \/ Merge
             \/ ErrLock \/ ErrRemoveFinalizer \/ ErrDelete \/ ErrWaitGone
             \/ ErrGiveUp \/ ErrRecreate
          /\ UNCHANGED faults
       \/ RecApiError
    /\ UNCHANGED now

=============================================================================
