------------------------------ MODULE PodMount ------------------------------
(***************************************************************************)
(* The handler threads of the node plugin: PodMount.JMount (called by      *)
(* NodePublishVolume) and PodMount.JUmount (called by NodeUnpublishVolume).*)
(* One step is one request to the API server together with the local       *)
(* decision taken on its answer.  A thread ends in p_ok, p_err, u_ok or    *)
(* u_err, the answer the kubelet collects, or in "panic".                  *)
(***************************************************************************)
EXTENDS PodApi

VARIABLE tgt     \* tgt[w]: the target path of the call w serves

mountVars == <<tgt>>

PublishLabels == {"p_lock", "p_get", "p_create", "p_newSecret", "p_secret",
                  "p_addGet", "p_addUpd", "p_wait", "p_ok", "p_err"}
UnpublishLabels == {"u_lock", "u_get", "u_refGet", "u_refUpd", "u_newGet",
                    "u_delGet", "u_delayUpd", "u_del", "u_ok", "u_err"}
WorkerLabels == PublishLabels \cup UnpublishLabels \cup {"idle", "panic"}

(* the labels at which a worker holds the lock *)
WorkerCritical == {"p_get", "p_create", "p_newSecret", "p_secret",
                   "p_addGet", "p_addUpd", "u_get", "u_refGet", "u_refUpd",
                   "u_newGet", "u_delGet", "u_delayUpd", "u_del"}

(* An Update that failed.  RetryOnConflict reads the pod again at most     *)
(* three times, then hands the conflict on; a NotFound is handed on.       *)
UpdateFails(w, retry, fail) ==
    /\ w \notin fresh
    /\ \/ api.phase # "absent" /\ Step(w, retry)
       \/ Release(w, fail)
    /\ DropCopy(w)

-----------------------------------------------------------------------------
(* createOrAddRef *)

(* mutant: createOrAddRef does not take the lock *)
PubLock_Unlocked(w) ==
    /\ pc[w] = "p_lock"
    /\ Step(w, "p_get")
    /\ NoRequest

PubLock(w) ==
    /\ pc[w] = "p_lock"
    /\ Acquire(w, "p_get")
    /\ NoRequest

(* A pod being deleted is waited for: no step. *)
PubGet(w) ==
    /\ pc[w] = "p_get"
    /\ \/ api.phase = "absent" /\ Step(w, "p_create")
       \/ api.phase = "live" /\ Step(w, "p_secret")
    /\ NoRequest

(* "mount pod has been deleting for 1 min" *)
PubGiveUp(w) ==
    /\ pc[w] = "p_get"
    /\ WaitExpires
    /\ Release(w, "p_err")
    /\ NoRequest

(* CreatePod returns no pod on an error, which the next line dereferences. *)
PubCreate(w) ==
    /\ pc[w] = "p_create"
    /\ IF api.phase = "absent"
       THEN /\ WritePod(NewMountPod({tgt[w]}))
            /\ Step(w, "p_newSecret")
            /\ UNCHANGED view
       ELSE Step(w, "panic") /\ NoRequest

(* mutant: the secret is written for a new pod only *)
PubSecret_NewOnly(w) ==
    /\ pc[w] \in {"p_secret", "p_newSecret"}
    /\ IF pc[w] = "p_newSecret"
       THEN /\ secret' = CreateOrUpdateSecret(secret, api.phase # "absent")
            /\ Release(w, "p_wait")
       ELSE Step(w, "p_addGet") /\ UNCHANGED secret
    /\ UNCHANGED <<api, view, fresh>>

(* createOrUpdateSecret, for the pod that was read or created; its Update  *)
(* fails when the secret is collected after the Get.                       *)
PubSecret(w) ==
    /\ pc[w] \in {"p_secret", "p_newSecret"}
    /\ \/ /\ secret' = CreateOrUpdateSecret(secret, api.phase # "absent")
          /\ IF pc[w] = "p_secret" THEN Step(w, "p_addGet")
                                   ELSE Release(w, "p_wait")
       \/ /\ secret = "orphaned"
          /\ secret' = "absent"
          /\ Release(w, "p_err")
    /\ UNCHANGED <<api, view, fresh>>

(* AddRefOfMount *)
AddRefGet(w) ==
    /\ pc[w] = "p_addGet"
    /\ \/ /\ api.phase # "live"
          /\ Release(w, "p_err")
          /\ NoRequest
       \/ /\ api.phase = "live" /\ tgt[w] \in api.refs
          /\ Release(w, "p_wait")
          /\ NoRequest
       \/ /\ api.phase = "live" /\ tgt[w] \notin api.refs
          /\ Step(w, "p_addUpd")
          /\ GetPod(w)

AddRefUpdate(w) ==
    /\ pc[w] = "p_addUpd"
    /\ \/ /\ UpdateAndDrop(w, [view[w] EXCEPT !.refs = @ \cup {tgt[w]},
                                              !.delayAt = 0])
          /\ Release(w, "p_wait")
       \/ UpdateFails(w, "p_addGet", "p_err")

(* waitUtilPodReady, without the lock: until the pod is ready ... *)
WaitUtilPodReady(w) ==
    /\ pc[w] = "p_wait"
    /\ \/ api.phase = "absent" /\ Step(w, "p_err")
       \/ api.phase # "absent" /\ api.stat = "ready" /\ Step(w, "p_ok")
    /\ NoRequest

(* ... or for 30 seconds, which a healthy pod stays within unless the      *)
(* environment is slow.                                                    *)
WaitReadyExpires(w) ==
    /\ pc[w] = "p_wait"
    /\ api.phase # "absent" /\ api.stat # "ready"
    /\ \/ "slow" \in Faults
       \/ api.phase = "terminating"
       \/ api.stat \in {"error", "resource"}
       \/ secret = "absent"
    /\ Step(w, "p_err")
    /\ NoRequest

-----------------------------------------------------------------------------
(* JUmount *)

(* mutant: JUmount does not take the lock *)
UmountLock_Unlocked(w) ==
    /\ pc[w] = "u_lock"
    /\ Step(w, "u_get")
    /\ NoRequest

UmountLock(w) ==
    /\ pc[w] = "u_lock"
    /\ Acquire(w, "u_get")
    /\ NoRequest

UmountGet(w) ==
    /\ pc[w] = "u_get"
    /\ \/ api.phase = "absent" /\ Release(w, "u_ok")
       \/ api.phase # "absent" /\ Step(w, "u_refGet")
    /\ NoRequest

(* the body of the first RetryOnConflict: drop the reference *)
UmountRefGet(w) ==
    /\ pc[w] = "u_refGet"
    /\ \/ /\ api.phase = "absent"
          /\ Release(w, "u_err")
          /\ NoRequest
       \/ /\ api.phase # "absent" /\ tgt[w] \notin api.refs
          /\ Step(w, "u_newGet")
          /\ NoRequest
       \/ /\ tgt[w] \in api.refs
          /\ Step(w, "u_refUpd")
          /\ GetPod(w)

UmountRefUpdate(w) ==
    /\ pc[w] = "u_refUpd"
    /\ \/ /\ UpdateAndDrop(w, [view[w] EXCEPT !.refs = @ \ {tgt[w]}])
          /\ Step(w, "u_newGet")
       \/ UpdateFails(w, "u_refGet", "u_err")

UmountNewGet(w) ==
    /\ pc[w] = "u_newGet"
    /\ \/ api.phase = "absent" /\ Release(w, "u_ok")
       \/ HasRef(api) /\ Release(w, "u_ok")
       \/ api.phase # "absent" /\ ~HasRef(api) /\ Step(w, "u_delGet")
    /\ NoRequest

(* deleteMountPod, the body of the second RetryOnConflict *)
UmountDelGet(w) ==
    /\ pc[w] = "u_delGet"
    /\ \/ /\ \/ api.phase = "absent"
             \/ HasRef(api)
             \/ ShouldDelay(api) = "wait"
          /\ Release(w, "u_ok")
          /\ NoRequest
       \/ /\ api.phase # "absent" /\ ~HasRef(api)
          /\ ShouldDelay(api) = "mark"
          /\ Step(w, "u_delayUpd")
          /\ GetPod(w)
       \/ /\ api.phase # "absent" /\ ~HasRef(api)
          /\ ShouldDelay(api) = "delete"
          /\ Step(w, "u_del")
          /\ NoRequest

UmountMark(w) ==
    /\ pc[w] = "u_delayUpd"
    /\ \/ /\ UpdateAndDrop(w, [view[w] EXCEPT !.delayAt = TimeAfterDelay])
          /\ Release(w, "u_ok")
       \/ UpdateFails(w, "u_delGet", "u_err")

UmountDelete(w) ==
    /\ pc[w] = "u_del"
    /\ \/ DeletePod /\ Release(w, "u_ok") /\ UNCHANGED view
       \/ api.phase = "absent" /\ Release(w, "u_err") /\ NoRequest

-----------------------------------------------------------------------------
(* A request fails for another reason than a conflict or a missing pod:    *)
(* the handler returns the error.                                          *)
WorkerApiError(w) ==
    /\ OneShot("apiError")
    /\ \/ /\ pc[w] \in (WorkerCritical \cap PublishLabels) \ {"p_create"}
          /\ Release(w, "p_err")
       \/ pc[w] = "p_wait" /\ Step(w, "p_err")
       \/ pc[w] \in WorkerCritical \cap UnpublishLabels /\ Release(w, "u_err")
       \/ pc[w] = "p_create" /\ Step(w, "panic")
    /\ DropCopy(w)

(* What the node does itself fails: the settings, the directory or the     *)
(* subdirectory of the volume and the bind mount around JMount, the umount *)
(* and the clean-up of the target path before JUmount.                     *)
LocalError(w) ==
    /\ OneShot("localError")
    /\ \/ pc[w] \in {"p_lock", "p_ok"} /\ Step(w, "p_err")
       \/ pc[w] = "u_lock" /\ Step(w, "u_err")
    /\ NoRequest

JMount(w) ==
    \/ PubLock(w) \/ PubGet(w) \/ PubGiveUp(w) \/ PubCreate(w) \/ PubSecret(w)
    \/ AddRefGet(w) \/ AddRefUpdate(w)
    \/ WaitUtilPodReady(w) \/ WaitReadyExpires(w)

JUmount(w) ==
    \/ UmountLock(w) \/ UmountGet(w) \/ UmountRefGet(w) \/ UmountRefUpdate(w)
    \/ UmountNewGet(w) \/ UmountDelGet(w) \/ UmountMark(w) \/ UmountDelete(w)

HandlerStep(w) ==
    /\ \/ (JMount(w) \/ JUmount(w)) /\ UNCHANGED faults
       \/ WorkerApiError(w)
       \/ LocalError(w)
    /\ UNCHANGED <<now, tgt>>

=============================================================================
