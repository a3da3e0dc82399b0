------------------------------ MODULE MountPod ------------------------------
(***************************************************************************)
(* The node side of the driver for one volume: the handler threads         *)
(* (PodMount) and the reconciler (PodDriver) sharing the mount pod and its *)
(* lock, driven by a kubelet that publishes the volume for application     *)
(* pods and unpublishes it when they go, and by a cluster in which pods    *)
(* become ready, fail, are deleted and disappear, and the plugin restarts. *)
(***************************************************************************)
EXTENDS PodMount, PodDriver

CONSTANT Manager     \* --enable-manager: the reconciler runs

ASSUME ManagerAssumption == Manager \in BOOLEAN

VARIABLES
    app,      \* app[t]: the application pod that owns target path t
    call,     \* call[t]: the thread serving the kubelet's call for t
    vol       \* vol[t]: the kubelet's record of the volume at t

kubeletVars == <<app, call, vol>>
vars == <<apiVars, mountVars, driverVars, kubeletVars>>

Running == {t \in Targets : app[t] = "running"}

ApiTypes ==
    /\ api \in Pod
    /\ secret \in Secret
    /\ view \in [Threads -> Pod]
    /\ fresh \subseteq Threads
    /\ now \in Nat
    /\ faults \in Nat

ThreadTypes ==
    /\ lock \in Threads \cup {Nobody}
    /\ pc \in [Threads -> WorkerLabels \cup RecLabels]
    /\ \A w \in Workers : pc[w] \in WorkerLabels
    /\ pc[Rec] \in RecLabels
    /\ tgt \in [Workers -> Targets \cup {Nobody}]
    /\ alive \subseteq Targets
    /\ again \in BOOLEAN
    /\ existTargets \subseteq Targets

KubeletTypes ==
    /\ app \in [Targets -> {"none", "running", "deleting", "gone"}]
    /\ call \in [Targets -> Workers \cup {Nobody}]
    /\ vol \in [Targets -> {"none", "uncertain", "mounted"}]

TypeOK == ApiTypes /\ ThreadTypes /\ KubeletTypes

Init ==
    /\ api = Absent
    /\ secret = "absent"
    /\ view = [a \in Threads |-> Absent]
    /\ fresh = {}
    /\ lock = Nobody
    /\ pc = [a \in Threads |-> "idle"]
    /\ now = 0
    /\ tgt = [w \in Workers |-> Nobody]
    /\ alive = {} /\ again = FALSE /\ existTargets = {}
    /\ app = [t \in Targets |-> "none"]
    /\ call = [t \in Targets |-> Nobody]
    /\ vol = [t \in Targets |-> "none"]
    /\ faults = 0

-----------------------------------------------------------------------------
(* The kubelet: application pods and calls to the plugin.  A target path   *)
(* holds the uid of its pod, so it is never used again.                    *)

SetApp(t, from, to) ==
    /\ app[t] = from
    /\ app' = [app EXCEPT ![t] = to]
    /\ UNCHANGED <<apiVars, mountVars, driverVars, call, vol>>

AppStart(t)  == SetApp(t, "none", "running")
AppDelete(t) == SetApp(t, "running", "deleting")
AppGone(t)   == vol[t] = "none" /\ call[t] = Nobody
                /\ SetApp(t, "deleting", "gone")

StartCall(t, w, label) ==
    /\ call[t] = Nobody
    /\ pc[w] = "idle"
    /\ Goto(w, label)
    /\ tgt' = [tgt EXCEPT ![w] = t]
    /\ call' = [call EXCEPT ![t] = w]
    /\ UNCHANGED <<api, secret, view, fresh, lock, now, faults, driverVars,
                   app, vol>>

NodePublishVolume(t, w) ==
    /\ app[t] = "running" /\ vol[t] # "mounted"
    /\ StartCall(t, w, "p_lock")

NodeUnpublishVolume(t, w) ==
    /\ app[t] = "deleting" /\ vol[t] # "none"
    /\ StartCall(t, w, "u_lock")

(* The handler returns; the kubelet takes the answer if it still waits.    *)
VolumeAfter(label, before) ==
    CASE label = "p_ok"  -> "mounted"
      [] label = "p_err" -> "none"
      [] label = "u_ok"  -> "none"
      [] label = "u_err" -> before

Collect(w) ==
    /\ pc[w] \in {"p_ok", "p_err", "u_ok", "u_err"}
    /\ Goto(w, "idle")
    /\ tgt' = [tgt EXCEPT ![w] = Nobody]
    /\ LET t == tgt[w]
       IN  IF call[t] = w
           THEN /\ call' = [call EXCEPT ![t] = Nobody]
                /\ vol' = [vol EXCEPT ![t] = VolumeAfter(pc[w], @)]
           ELSE UNCHANGED <<call, vol>>
    /\ UNCHANGED <<api, secret, view, fresh, lock, now, faults, driverVars,
                   app>>

(* The kubelet stops waiting; the handler goes on. *)
CallTimeout(t) ==
    /\ OneShot("callTimeout")
    /\ call[t] # Nobody
    /\ pc[call[t]] \notin {"p_ok", "p_err", "u_ok", "u_err"}
    /\ call' = [call EXCEPT ![t] = Nobody]
    /\ vol' = [vol EXCEPT ![t] = IF @ = "none" THEN "uncertain" ELSE @]
    /\ UNCHANGED <<api, secret, view, fresh, lock, pc, now, mountVars,
                   driverVars, app>>

-----------------------------------------------------------------------------
(* The cluster and the mount pod. *)

ClusterFrame == UNCHANGED <<view, lock, pc, now, mountVars, driverVars,
                            kubeletVars>>

(* The containers start, which takes the secret their environment is in.   *)
PodReady ==
    /\ api.phase = "live" /\ api.stat = "pending"
    /\ secret # "absent"
    /\ WritePod([api EXCEPT !.stat = "ready"])
    /\ ClusterFrame /\ UNCHANGED faults

(* the containers of a pod being deleted stop (preStop: umount) *)
PodStops ==
    /\ api.phase = "terminating" /\ api.stat = "ready"
    /\ WritePod([api EXCEPT !.stat = "pending"])
    /\ ClusterFrame /\ UNCHANGED faults

PodDisappears ==
    /\ api.phase = "terminating" /\ ~api.fin /\ api.stat # "ready"
    /\ api' = Absent
    /\ fresh' = {}
    /\ secret' = WithoutOwner(secret)
    /\ ClusterFrame /\ UNCHANGED faults

(* The garbage collector removes what no owner is left of. *)
SecretCollected ==
    /\ secret = "orphaned"
    /\ secret' = "absent"
    /\ UNCHANGED <<api, fresh>>
    /\ ClusterFrame /\ UNCHANGED faults

(* restartPolicy Always *)
PodRestarts ==
    /\ api.phase = "live" /\ api.stat = "error"
    /\ WritePod([api EXCEPT !.stat = "pending"])
    /\ ClusterFrame /\ UNCHANGED faults

PodFails ==
    /\ OneShot("podError")
    /\ api.phase = "live" /\ api.stat \in {"pending", "ready"}
    /\ WritePod([api EXCEPT !.stat = "error"])
    /\ ClusterFrame

(* the node has no room for the resources the pod asks for *)
PodRejected ==
    /\ OneShot("resource")
    /\ api.phase = "live" /\ api.stat = "pending" /\ api.res
    /\ WritePod([api EXCEPT !.stat = "resource"])
    /\ ClusterFrame

UserDeletesPod ==
    /\ OneShot("userDelete")
    /\ api.phase = "live"
    /\ WritePod(Terminating(api))
    /\ ClusterFrame

Tick ==
    /\ HasDelay /\ now < Horizon
    /\ now' = now + 1
    /\ UNCHANGED <<api, secret, view, fresh, lock, pc, mountVars, driverVars,
                   kubeletVars, faults>>

(* The plugin restarts: by a crash, or by a panic of one of its threads.   *)
(* Its threads and locks are gone; the kubelet's calls fail with an error  *)
(* that leaves it uncertain.                                               *)
Restart ==
    /\ view' = [a \in Threads |-> Absent]
    /\ fresh' = {}
    /\ lock' = Nobody
    /\ pc' = [a \in Threads |-> "idle"]
    /\ tgt' = [w \in Workers |-> Nobody]
    /\ alive' = {} /\ again' = FALSE /\ existTargets' = {}
    /\ call' = [t \in Targets |-> Nobody]
    /\ vol' = [t \in Targets |->
                 IF call[t] # Nobody /\ vol[t] = "none"
                 THEN "uncertain" ELSE vol[t]]
    /\ UNCHANGED <<api, secret, now, app>>

Crash == OneShot("crash") /\ Restart

Panic == (\E w \in Workers : pc[w] = "panic") /\ Restart /\ UNCHANGED faults

-----------------------------------------------------------------------------
Handler(w) ==
    /\ HandlerStep(w)
    /\ UNCHANGED <<driverVars, kubeletVars>>

Reconciler ==
    /\ Manager
    /\ \/ RunStep
       \/ (RecList \/ RecApps(Running)) /\ UNCHANGED <<now, faults>>
    /\ UNCHANGED <<mountVars, kubeletVars>>

Kubelet ==
    \/ \E t \in Targets : \/ AppStart(t) \/ AppDelete(t) \/ AppGone(t)
                          \/ CallTimeout(t)
    \/ \E t \in Targets, w \in Workers : \/ NodePublishVolume(t, w)
                                         \/ NodeUnpublishVolume(t, w)
    \/ \E w \in Workers : Collect(w)

Cluster ==
    \/ PodReady \/ PodStops \/ PodDisappears \/ PodRestarts
    \/ PodFails \/ PodRejected \/ UserDeletesPod
    \/ Tick \/ Crash \/ Panic \/ SecretCollected

Next ==
    \/ \E w \in Workers : Handler(w)
    \/ Reconciler
    \/ Kubelet
    \/ Cluster

Spec == Init /\ [][Next]_vars

(* Fairness.  The Go scheduler runs every thread, a mutex is handed to     *)
(* every waiter in the end (sync.Mutex starvation mode), the kubelet       *)
(* repeats its calls and starts and stops containers, time passes.  No     *)
(* user or application pod has to do anything, and no fault to happen.     *)
HandlerLocks(w) == (PubLock(w) \/ UmountLock(w))
                   /\ UNCHANGED <<now, tgt, driverVars, kubeletVars, faults>>

RecLocks == /\ Manager
            /\ CheckAnnotations \/ RecWaitLock \/ ErrLock
            /\ UNCHANGED <<now, mountVars, kubeletVars, faults>>

Publish(t)   == \E w \in Workers : NodePublishVolume(t, w)
Unpublish(t) == \E w \in Workers : NodeUnpublishVolume(t, w)

Fairness ==
    /\ \A w \in Workers : /\ WF_vars(Handler(w))
                          /\ SF_vars(HandlerLocks(w))
                          /\ WF_vars(Collect(w))
    /\ WF_vars(Reconciler)
    /\ SF_vars(RecLocks)
    /\ \A t \in Targets : /\ SF_vars(Publish(t))
                          /\ SF_vars(Unpublish(t))
                          /\ WF_vars(AppGone(t))
    /\ WF_vars(PodReady \/ PodStops \/ PodDisappears \/ PodRestarts)
    /\ WF_vars(SecretCollected)
    /\ WF_vars(Tick)
    /\ WF_vars(Panic)

FairSpec == Spec /\ Fairness

-----------------------------------------------------------------------------
(* Safety *)

(* createOrAddRef never dereferences the nil pod of a failed CreatePod:    *)
(* under the lock, a pod seen absent stays absent until it is created.     *)
NoPanic == \A w \in Workers : pc[w] # "panic"

(* JUmount never deletes a pod that is in use: from the read that finds no *)
(* reference to the DeletePod by name, no reference can appear.            *)
UmountDeletesUnused == \A w \in Workers : pc[w] = "u_del" => ~HasRef(api)

(* The first pass of checkAnnotations in a round never drops the reference *)
(* of an application pod that is running, although the pod list it works   *)
(* from is old.                                                            *)
FirstPassDropsOnlyDeleted ==
    [][(pc[Rec] = "r_upd" /\ pc'[Rec] # "r_upd" /\ ~again) =>
         \A t \in api.refs \ api'.refs : app[t] # "running"]_vars

(* A pod in use is never marked with a delete deadline, by either thread.  *)
MarksOnlyUnused ==
    [][(api.phase # "absent" /\ api.delayAt = 0 /\ api'.delayAt > 0) =>
         ~HasRef(api) /\ ~HasRef(api')]_vars

(* With a delete delay, JUmount deletes a pod only when the deadline the   *)
(* API server holds has passed.                                            *)
UmountHonoursDelay ==
    \A w \in Workers :
        (pc[w] = "u_del" /\ HasDelay /\ api.phase = "live") =>
            api.delayAt > 0 /\ api.delayAt <= now

(* The reconciler deletes the pod only if it has no reference: not so with *)
(* a delete delay (README, Known deviations).                              *)
RecDeletesUnused == pc[Rec] = "r_del" => ~HasRef(api)

(* checkAnnotations drops a reference only of a pod that is not running:   *)
(* not so in the second pass, after a conflict.                            *)
PrunesOnlyDeleted ==
    [][(pc[Rec] = "r_upd" /\ pc'[Rec] # "r_upd") =>
         \A t \in api.refs \ api'.refs : app[t] # "running"]_vars

(* The volume of a running application pod is referenced by a mount pod    *)
(* nobody is deleting.                                                     *)
MountedIsReferenced ==
    \A t \in Targets : (app[t] = "running" /\ vol[t] = "mounted") =>
        api.phase = "live" /\ t \in api.refs

-----------------------------------------------------------------------------
(* Liveness *)

(* When the last application pod is gone, the mount pod is deleted in the  *)
(* end, and stays away.                                                    *)
UnusedPodDeleted ==
    (\A t \in Targets : app[t] = "gone") ~> [](api.phase = "absent")

(* A mount pod deleted under a running application pod is created again    *)
(* and carries its reference.                                              *)
MountPodRecreated ==
    \A t \in Targets :
        (app[t] = "running" /\ vol[t] = "mounted") ~>
            \/ app[t] # "running"
            \/ api.phase = "live" /\ t \in api.refs

(* ... and runs again: not so when its secret is collected first (README,  *)
(* Known deviations).                                                      *)
MountPodComesBack ==
    \A t \in Targets :
        (app[t] = "running" /\ vol[t] = "mounted") ~>
            \/ app[t] # "running"
            \/ api.phase = "live" /\ api.stat = "ready" /\ t \in api.refs

(* The volume of a running application pod is mounted in the end.          *)
PublishSucceeds ==
    \A t \in Targets :
        app[t] = "running" ~> app[t] # "running" \/ vol[t] = "mounted"

=============================================================================
