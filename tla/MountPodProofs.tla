--------------------------- MODULE MountPodProofs ---------------------------
(***************************************************************************)
(* Proofs about MountPod, for any sets of targets and threads, with or     *)
(* without a delete delay, the reconciler and the faults; and, at the end, *)
(* that it implements RefCount.                                            *)
(***************************************************************************)
EXTENDS MountPodRefines, TLAPS

(* The targets of application pods that have been started.                 *)
Known == {t \in Targets : app[t] # "none"}

(* The mutex of the pod's name: a thread between Lock and Unlock holds it. *)
LockInv ==
    /\ \A w \in Workers : pc[w] \in WorkerCritical => lock = w
    /\ pc[Rec] \in RecCritical => lock = Rec

(* A copy with the latest resourceVersion is the pod of the server: what   *)
(* an Update that succeeds has read is still so.                           *)
FreshInv == \A a \in fresh : view[a] = api

(* References, in whatever copy, are of application pods that have been    *)
(* started: a target path is never in use before its pod is.               *)
KnownInv ==
    /\ api.refs \subseteq Known
    /\ \A a \in Threads : view[a].refs \subseteq Known
    /\ existTargets \subseteq Known
    /\ \A w \in Workers : pc[w] # "idle" => tgt[w] \in Known

(* What a handler has learnt from its last request is still so at its next *)
(* one, because whoever could change it needs the lock or makes its copy   *)
(* stale.                                                                  *)
HandlerInv ==
    \A w \in Workers :
        /\ pc[w] = "p_create" => api.phase = "absent"
        /\ pc[w] = "panic" => "apiError" \in Faults
        /\ pc[w] = "p_addUpd" => view[w].phase = "live"
        /\ pc[w] = "u_del" => api.refs = {}
        /\ pc[w] = "u_delayUpd" => view[w].refs = {}
        /\ (pc[w] = "u_del" /\ HasDelay /\ api.phase = "live") =>
              api.delayAt > 0 /\ api.delayAt <= now

(* What the reconciler has learnt: the deadline is for a copy without      *)
(* references, and a reference of its first copy that is missing in the    *)
(* pod list is of an application pod that is being deleted, since the list *)
(* is no older than the copy.                                              *)
RecInv ==
    /\ pc[Rec] = "r_delayUpd" => view[Rec].refs = {}
    /\ (pc[Rec] \in {"r_lock", "r_upd"} /\ ~again) =>
          \A t \in view[Rec].refs \ alive : app[t] \in {"deleting", "gone"}

(* The inductive invariant.                                                *)
IInv == TypeOK /\ LockInv /\ FreshInv /\ KnownInv /\ HandlerInv /\ RecInv

(* The record that stands for no pod. *)
LEMMA AbsentType ==
    Absent \in Pod /\ Absent.refs = {} /\ Absent.phase = "absent"
BY DEF Absent, Pod

(* The edits the code makes to annotations, finalizers and specs of a pod. *)
LEMMA PodEdits ==
    ASSUME NEW p \in Pod, NEW r \in SUBSET Targets, NEW d \in Nat
    PROVE  /\ [p EXCEPT !.refs = r, !.delayAt = d] \in Pod
           /\ [p EXCEPT !.refs = r, !.delayAt = d].refs = r
           /\ [p EXCEPT !.refs = r] \in Pod
           /\ [p EXCEPT !.refs = r].refs = r
           /\ [p EXCEPT !.delayAt = d] \in Pod
           /\ [p EXCEPT !.delayAt = d].refs = p.refs
           /\ [p EXCEPT !.fin = FALSE] \in Pod
           /\ [p EXCEPT !.fin = FALSE].refs = p.refs
           /\ Recreated(p) \in Pod
           /\ Recreated(p).refs = p.refs
           /\ [Recreated(p) EXCEPT !.res = FALSE] \in Pod
           /\ [Recreated(p) EXCEPT !.res = FALSE].refs = p.refs
BY DEF Pod, Recreated

(* DeletePod keeps the references of the pod. *)
LEMMA TerminatingType ==
    ASSUME NEW p \in Pod
    PROVE  Terminating(p) \in Pod /\ Terminating(p).refs = p.refs
BY DEF Pod, Terminating

(* Every step of JMount and JUmount keeps the invariant. *)
LEMMA HandlerPreserves ==
    ASSUME IInv, NEW w \in Workers, Handler(w)
    PROVE  IInv'
<1> USE ThreadAssumption, AbsentType DEF IInv, TypeOK, ApiTypes, ThreadTypes,
        KubeletTypes, Goto, Threads, mountVars, driverVars, kubeletVars,
        WorkerLabels, PublishLabels, UnpublishLabels
<1>0. UNCHANGED <<now, tgt, driverVars, kubeletVars>>
  BY DEF Handler, HandlerStep
<1>1. ASSUME PubLock(w), UNCHANGED faults PROVE IInv'
  BY <1>0, <1>1 DEF PubLock, Acquire, NoRequest, Pod, KnownInv, Known,
     LockInv, WorkerCritical, RecCritical, FreshInv, HandlerInv, RecInv
<1>2. ASSUME PubGet(w), UNCHANGED faults PROVE IInv'
  <2>1. ApiTypes'
    BY <1>0, <1>2 DEF PubGet, Step, NoRequest, Pod, KnownInv, Known
  <2>2. ThreadTypes' /\ KubeletTypes'
    BY <1>0, <1>2 DEF PubGet, Step, NoRequest, Pod
  <2>3. LockInv' /\ FreshInv' /\ KnownInv' /\ HandlerInv' /\ RecInv'
    BY <1>0, <1>2 DEF PubGet, Step, NoRequest, LockInv, WorkerCritical,
       RecCritical, FreshInv, KnownInv, Known, Pod, HandlerInv, RecInv
  <2>4. QED
    BY <2>1, <2>2, <2>3 DEF IInv, TypeOK
<1>3. ASSUME PubGiveUp(w), UNCHANGED faults PROVE IInv'
  BY <1>0, <1>3 DEF PubGiveUp, Release, NoRequest, Pod, KnownInv, Known,
     LockInv, WorkerCritical, RecCritical, FreshInv, HandlerInv, RecInv
<1>4. ASSUME PubCreate(w), UNCHANGED faults PROVE IInv'
  <2>1. ApiTypes'
    <3>1. NewMountPod({tgt[w]}) \in Pod
      BY <1>4 DEF PubCreate, NewMountPod, Pod, KnownInv, Known
    <3>2. QED
      BY <1>0, <1>4, <3>1 DEF PubCreate, WritePod, NoRequest
  <2>2. ThreadTypes' /\ KubeletTypes'
    BY <1>0, <1>4 DEF PubCreate, Step
  <2>3. LockInv' /\ FreshInv'
    BY <1>0, <1>4 DEF PubCreate, WritePod, NewMountPod, Release, Step,
       NoRequest, LockInv, WorkerCritical, RecCritical, FreshInv
  <2>4. KnownInv'
    BY <1>0, <1>4 DEF PubCreate, WritePod, NewMountPod, Release, Step,
       NoRequest, KnownInv, Known, FreshInv, Pod
  <2>5. HandlerInv'
    BY <1>0, <1>4 DEF PubCreate, WritePod, NewMountPod, Release, Step,
       NoRequest, HandlerInv, LockInv, WorkerCritical, RecCritical, FreshInv,
       Pod
  <2>6. RecInv'
    BY <1>0, <1>4 DEF PubCreate, WritePod, NewMountPod, Release, Step,
       NoRequest, RecInv, KnownInv, Known, Pod
  <2>7. QED
    BY <2>1, <2>2, <2>3, <2>4, <2>5, <2>6 DEF IInv, TypeOK
<1>5. ASSUME AddRefGet(w), UNCHANGED faults PROVE IInv'
  BY <1>0, <1>5 DEF AddRefGet, Release, Step, NoRequest, GetPod, Pod,
     KnownInv, Known, LockInv, WorkerCritical, RecCritical, FreshInv,
     HandlerInv, RecInv
<1>6. ASSUME AddRefUpdate(w), UNCHANGED faults PROVE IInv'
  <2>1. ApiTypes'
    <3>1. [view[w] EXCEPT !.refs = @ \cup {tgt[w]}, !.delayAt = 0] \in Pod
      <4>1. view[w].refs \cup {tgt[w]} \in SUBSET Targets
        BY <1>6 DEF AddRefUpdate, Pod, KnownInv, Known
      <4>2. QED
        BY <4>1, PodEdits
    <3>2. QED
      BY <1>0, <1>6, <3>1 DEF AddRefUpdate, UpdateAndDrop, WritePod,
         UpdateFails, DropCopy
  <2>2. ThreadTypes' /\ KubeletTypes'
    BY <1>0, <1>6 DEF AddRefUpdate, UpdateAndDrop, WritePod, Release,
       UpdateFails, DropCopy, Step, Pod
  <2>3. KnownInv'
    <3>1. view[w].refs \cup {tgt[w]} \in SUBSET Known
      BY <1>6 DEF AddRefUpdate, KnownInv
    <3>2. [view[w] EXCEPT !.refs = @ \cup {tgt[w]}, !.delayAt = 0].refs
             = view[w].refs \cup {tgt[w]}
      BY DEF Pod
    <3>3. api'.refs \subseteq Known
      BY <1>6, <3>1, <3>2 DEF AddRefUpdate, UpdateAndDrop, WritePod,
         UpdateFails, DropCopy, KnownInv
    <3>4. \A a \in Threads : view'[a].refs \subseteq Known
      BY <1>6 DEF AddRefUpdate, UpdateAndDrop, UpdateFails, DropCopy, KnownInv
    <3>5. Known' = Known
      BY <1>0 DEF Known
    <3>6. QED
      BY <1>0, <1>6, <3>3, <3>4, <3>5 DEF AddRefUpdate, UpdateFails, Release,
         Step, KnownInv
  <2>4. LockInv' /\ FreshInv' /\ HandlerInv' /\ RecInv'
    BY <1>0, <1>6 DEF AddRefUpdate, UpdateAndDrop, WritePod, Release,
       UpdateFails, DropCopy, Step, LockInv, WorkerCritical, RecCritical,
       FreshInv, HandlerInv, Pod, RecInv, KnownInv, Known
  <2>5. QED
    BY <2>1, <2>2, <2>3, <2>4 DEF IInv, TypeOK
<1>7. ASSUME WaitUtilPodReady(w), UNCHANGED faults PROVE IInv'
  BY <1>0, <1>7 DEF WaitUtilPodReady, Step, NoRequest, Pod, KnownInv, Known,
     LockInv, WorkerCritical, RecCritical, FreshInv, HandlerInv, RecInv
<1>8. ASSUME WaitReadyExpires(w), UNCHANGED faults PROVE IInv'
  BY <1>0, <1>8 DEF WaitReadyExpires, Step, NoRequest, Pod, KnownInv, Known,
     LockInv, WorkerCritical, RecCritical, FreshInv, HandlerInv, RecInv
<1>9. ASSUME UmountLock(w), UNCHANGED faults PROVE IInv'
  BY <1>0, <1>9 DEF UmountLock, Acquire, NoRequest, Pod, KnownInv, Known,
     LockInv, WorkerCritical, RecCritical, FreshInv, HandlerInv, RecInv
<1>10. ASSUME UmountGet(w), UNCHANGED faults PROVE IInv'
  <2>1. ApiTypes'
    BY <1>0, <1>10 DEF UmountGet, Step, Release, NoRequest, Pod, KnownInv,
       Known
  <2>2. ThreadTypes' /\ KubeletTypes'
    BY <1>0, <1>10 DEF UmountGet, Step, Release, NoRequest, Pod
  <2>3. LockInv' /\ FreshInv'
    BY <1>0, <1>10 DEF UmountGet, Step, Release, NoRequest, LockInv,
       WorkerCritical, RecCritical, FreshInv
  <2>4. KnownInv'
    BY <1>0, <1>10 DEF UmountGet, Step, Release, NoRequest, KnownInv, Known,
       FreshInv, Pod
  <2>5. HandlerInv'
    BY <1>0, <1>10 DEF UmountGet, Step, Release, NoRequest, HandlerInv,
       LockInv, WorkerCritical, RecCritical, FreshInv, Pod
  <2>6. RecInv'
    BY <1>0, <1>10 DEF UmountGet, Step, Release, NoRequest, RecInv, KnownInv,
       Known, Pod
  <2>7. QED
    BY <2>1, <2>2, <2>3, <2>4, <2>5, <2>6 DEF IInv, TypeOK
<1>11. ASSUME UmountRefGet(w), UNCHANGED faults PROVE IInv'
  <2>1. ApiTypes'
    BY <1>0, <1>11 DEF UmountRefGet, Step, Release, NoRequest, GetPod, Pod,
       KnownInv, Known
  <2>2. ThreadTypes' /\ KubeletTypes'
    BY <1>0, <1>11 DEF UmountRefGet, Step, Release, NoRequest, GetPod, Pod
  <2>3. LockInv' /\ FreshInv' /\ KnownInv' /\ HandlerInv' /\ RecInv'
    BY <1>0, <1>11 DEF UmountRefGet, Step, Release, NoRequest, GetPod,
       LockInv, WorkerCritical, RecCritical, FreshInv, KnownInv, Known, Pod,
       HandlerInv, RecInv
  <2>4. QED
    BY <2>1, <2>2, <2>3 DEF IInv, TypeOK
<1>12. ASSUME UmountRefUpdate(w), UNCHANGED faults PROVE IInv'
  <2>1. ApiTypes'
    BY <1>0, <1>12 DEF UmountRefUpdate, UpdateAndDrop, WritePod, Release,
       UpdateFails, DropCopy, Step, Pod, KnownInv, Known
  <2>2. ThreadTypes' /\ KubeletTypes'
    BY <1>0, <1>12 DEF UmountRefUpdate, UpdateAndDrop, WritePod, Release,
       UpdateFails, DropCopy, Step, Pod
  <2>3. LockInv' /\ FreshInv' /\ KnownInv' /\ HandlerInv' /\ RecInv'
    BY <1>0, <1>12 DEF UmountRefUpdate, UpdateAndDrop, WritePod, Release,
       UpdateFails, DropCopy, Step, LockInv, WorkerCritical, RecCritical,
       FreshInv, KnownInv, Known, Pod, HandlerInv, RecInv
  <2>4. QED
    BY <2>1, <2>2, <2>3 DEF IInv, TypeOK
<1>13. ASSUME UmountNewGet(w), UNCHANGED faults PROVE IInv'
  <2>1. ApiTypes'
    BY <1>0, <1>13 DEF UmountNewGet, Step, Release, NoRequest, Pod, KnownInv,
       Known
  <2>2. ThreadTypes' /\ KubeletTypes'
    BY <1>0, <1>13 DEF UmountNewGet, Step, Release, NoRequest, Pod
  <2>3. LockInv' /\ FreshInv' /\ KnownInv' /\ HandlerInv' /\ RecInv'
    BY <1>0, <1>13 DEF UmountNewGet, Step, Release, NoRequest, LockInv,
       WorkerCritical, RecCritical, FreshInv, KnownInv, Known, Pod,
       HandlerInv, RecInv
  <2>4. QED
    BY <2>1, <2>2, <2>3 DEF IInv, TypeOK
<1>14. ASSUME UmountDelGet(w), UNCHANGED faults PROVE IInv'
  <2>1. ApiTypes'
    BY <1>0, <1>14 DEF UmountDelGet, GetPod, NoRequest
  <2>2. ThreadTypes' /\ KubeletTypes'
    BY <1>0, <1>14 DEF UmountDelGet, Step, Release
  <2>3. LockInv' /\ FreshInv'
    BY <1>0, <1>14 DEF UmountDelGet, Step, Release, NoRequest, GetPod,
       HasRef, ShouldDelay, LockInv, WorkerCritical, RecCritical, FreshInv
  <2>4. KnownInv'
    BY <1>0, <1>14 DEF UmountDelGet, Step, Release, NoRequest, GetPod,
       HasRef, ShouldDelay, KnownInv, Known, FreshInv, Pod
  <2>5. HandlerInv'
    BY <1>0, <1>14 DEF UmountDelGet, Step, Release, NoRequest, GetPod,
       HasRef, ShouldDelay, HandlerInv, LockInv, WorkerCritical, RecCritical,
       FreshInv, Pod
  <2>6. RecInv'
    BY <1>0, <1>14 DEF UmountDelGet, Step, Release, NoRequest, GetPod,
       HasRef, ShouldDelay, RecInv, KnownInv, Known, Pod
  <2>7. QED
    BY <2>1, <2>2, <2>3, <2>4, <2>5, <2>6 DEF IInv, TypeOK
<1>15. ASSUME UmountMark(w), UNCHANGED faults PROVE IInv'
  <2>1. ApiTypes'
    <3>1. [view[w] EXCEPT !.delayAt = TimeAfterDelay] \in Pod
      <4>1. now + 1 \in Nat
        OBVIOUS
      <4>2. QED
        BY <4>1, PodEdits DEF TimeAfterDelay
    <3>2. QED
      BY <1>0, <1>15, <3>1 DEF UmountMark, UpdateAndDrop, WritePod,
         UpdateFails, DropCopy
  <2>2. ThreadTypes' /\ KubeletTypes'
    BY <1>0, <1>15 DEF UmountMark, UpdateAndDrop, WritePod, Release,
       UpdateFails, DropCopy, Step, TimeAfterDelay, Pod
  <2>3. LockInv' /\ FreshInv' /\ KnownInv' /\ HandlerInv' /\ RecInv'
    BY <1>0, <1>15 DEF UmountMark, UpdateAndDrop, WritePod, Release,
       UpdateFails, DropCopy, Step, TimeAfterDelay, LockInv, WorkerCritical,
       RecCritical, FreshInv, KnownInv, Known, Pod, HandlerInv, RecInv
  <2>4. QED
    BY <2>1, <2>2, <2>3 DEF IInv, TypeOK
<1>16. ASSUME UmountDelete(w), UNCHANGED faults PROVE IInv'
  <2>1. ApiTypes'
    BY <1>0, <1>16, TerminatingType DEF UmountDelete, DeletePod, WritePod,
       NoRequest
  <2>2. ThreadTypes' /\ KubeletTypes'
    BY <1>0, <1>16 DEF UmountDelete, DeletePod, Terminating, WritePod,
       Release, NoRequest, Pod
  <2>3. LockInv' /\ FreshInv' /\ KnownInv' /\ HandlerInv' /\ RecInv'
    BY <1>0, <1>16 DEF UmountDelete, DeletePod, Terminating, WritePod,
       Release, NoRequest, LockInv, WorkerCritical, RecCritical, FreshInv,
       KnownInv, Known, Pod, HandlerInv, RecInv
  <2>4. QED
    BY <2>1, <2>2, <2>3 DEF IInv, TypeOK
<1>17. ASSUME WorkerApiError(w) PROVE IInv'
  BY <1>0, <1>17 DEF WorkerApiError, OneShot, Release, Step, DropCopy, Pod,
     KnownInv, Known, LockInv, WorkerCritical, RecCritical, FreshInv,
     HandlerInv, RecInv
<1>18. ASSUME PubSecret(w), UNCHANGED faults PROVE IInv'
  <2>1. ApiTypes'
    BY <1>0, <1>18 DEF PubSecret, Secret, CreateOrUpdateSecret, Step,
       Release, Pod, KnownInv, Known
  <2>2. ThreadTypes' /\ KubeletTypes'
    BY <1>0, <1>18 DEF PubSecret, Secret, CreateOrUpdateSecret, Step,
       Release, Pod
  <2>3. LockInv' /\ FreshInv'
    BY <1>0, <1>18 DEF PubSecret, Secret, CreateOrUpdateSecret, Step,
       Release, LockInv, WorkerCritical, RecCritical, FreshInv
  <2>4. KnownInv'
    BY <1>0, <1>18 DEF PubSecret, Secret, CreateOrUpdateSecret, Step,
       Release, KnownInv, Known, FreshInv, Pod
  <2>5. HandlerInv'
    BY <1>0, <1>18 DEF PubSecret, Secret, CreateOrUpdateSecret, Step,
       Release, HandlerInv, LockInv, WorkerCritical, RecCritical, FreshInv,
       Pod
  <2>6. RecInv'
    BY <1>0, <1>18 DEF PubSecret, Secret, CreateOrUpdateSecret, Step,
       Release, RecInv, KnownInv, Known, Pod
  <2>7. QED
    BY <2>1, <2>2, <2>3, <2>4, <2>5, <2>6 DEF IInv, TypeOK
<1>19. ASSUME LocalError(w) PROVE IInv'
  BY <1>0, <1>19 DEF LocalError, OneShot, Step, NoRequest, Pod, KnownInv,
     Known, LockInv, WorkerCritical, RecCritical, FreshInv, HandlerInv,
     RecInv
<1>20. QED
  BY <1>0, <1>1, <1>2, <1>3, <1>4, <1>5, <1>6, <1>7, <1>8, <1>9, <1>10,
     <1>11, <1>12, <1>13, <1>14, <1>15, <1>16, <1>17, <1>18, <1>19 DEF
     Handler, HandlerStep, JMount, JUmount

(* Every step of doReconcile, Run and its handlers keeps the invariant. *)
LEMMA ReconcilerPreserves ==
    ASSUME IInv, Reconciler
    PROVE  IInv'
<1> USE ThreadAssumption, AbsentType DEF IInv, TypeOK, ApiTypes, ThreadTypes,
        KubeletTypes, Goto, Threads, mountVars, driverVars, kubeletVars,
        RecLabels
<1>0. UNCHANGED <<now, mountVars, kubeletVars>>
  BY DEF Reconciler, RunStep
<1>1. ASSUME RecList, UNCHANGED faults PROVE IInv'
  BY <1>0, <1>1 DEF RecList, GetPod, Step, NoRequest, Pod, KnownInv, Known,
     LockInv, WorkerCritical, RecCritical, FreshInv, HandlerInv, RecInv
<1>2. ASSUME RecApps(Running), UNCHANGED faults PROVE IInv'
  BY <1>0, <1>2 DEF RecApps, Running, Step, NoRequest, Pod, KnownInv, Known,
     LockInv, WorkerCritical, RecCritical, FreshInv, HandlerInv, RecInv
<1>3. ASSUME CheckAnnotations, UNCHANGED faults PROVE IInv'
  <2>1. ApiTypes'
    BY <1>0, <1>3 DEF CheckAnnotations, Pruned, AfterPrune, HasRef, current,
       NoRequest, Pod, KnownInv, Known
  <2>2. ThreadTypes' /\ KubeletTypes'
    BY <1>0, <1>3 DEF CheckAnnotations, Pruned, AfterPrune, HasRef, current,
       NoRequest, Pod
  <2>3. LockInv' /\ FreshInv'
    BY <1>0, <1>3 DEF CheckAnnotations, Pruned, AfterPrune, HasRef, current,
       NoRequest, LockInv, WorkerCritical, RecCritical, FreshInv
  <2>4. KnownInv'
    BY <1>0, <1>3 DEF CheckAnnotations, Pruned, AfterPrune, HasRef, current,
       NoRequest, KnownInv, Known, FreshInv, Pod
  <2>5. HandlerInv'
    BY <1>0, <1>3 DEF CheckAnnotations, Pruned, AfterPrune, HasRef, current,
       NoRequest, HandlerInv, LockInv, WorkerCritical, RecCritical, FreshInv,
       Pod
  <2>6. RecInv'
    BY <1>0, <1>3 DEF CheckAnnotations, Pruned, AfterPrune, HasRef, current,
       NoRequest, RecInv, KnownInv, Known, Pod
  <2>7. QED
    BY <2>1, <2>2, <2>3, <2>4, <2>5, <2>6 DEF IInv, TypeOK
<1>4. ASSUME PruneRefs, UNCHANGED faults PROVE IInv'
  <2>1. ApiTypes'
    <3>1. Pruned(current) \in Pod
      <4>1. current \in Pod /\ current.refs \cap alive \in SUBSET Targets
            /\ current.delayAt \in Nat
        BY DEF current, Pod
      <4>2. QED
        BY <4>1, PodEdits DEF Pruned
    <3>2. QED
      BY <1>0, <1>4, <3>1 DEF PruneRefs, WritePod, CheckFails, DropCopy,
         ReturnNoWrite, ReturnRun
  <2>2. ThreadTypes' /\ KubeletTypes'
    <3>1. lock' \in Threads \cup {Nobody}
          /\ pc' \in [Threads -> WorkerLabels \cup RecLabels]
           /\ pc'[Rec] \in RecLabels /\ (\A v \in Workers : pc'[v] = pc[v])
      BY <1>4 DEF PruneRefs, Pruned, AfterPrune, HasRef, current, Release,
         Step, CheckFails, ReturnNoWrite, ReturnRun
    <3>2. alive' \subseteq Targets /\ again' \in BOOLEAN
          /\ existTargets' \subseteq Targets
      BY <1>4 DEF PruneRefs, Pruned, AfterPrune, HasRef, current, Release,
         Step, CheckFails, ReturnNoWrite, ReturnRun, Pod
    <3>3. QED
      BY <1>0, <3>1, <3>2
  <2>3. KnownInv'
    <3>1. Pruned(current).refs \subseteq current.refs
      BY DEF Pruned, current, Pod
    <3>2. current.refs \subseteq Known
      BY DEF KnownInv, current
    <3>3. api'.refs \subseteq Known
          /\ \A a \in Threads : view'[a].refs \subseteq Known
      BY <1>4, <3>1, <3>2 DEF PruneRefs, WritePod, CheckFails, DropCopy,
         ReturnNoWrite, ReturnRun, KnownInv
    <3>4. QED
      BY <1>0, <1>4, <3>3 DEF PruneRefs, CheckFails, ReturnNoWrite,
         ReturnRun, Release, Step, KnownInv, Known
  <2>4. RecInv'
    <3>1. pc'[Rec] = "r_delayUpd" => view'[Rec] = Pruned(current)
          /\ ~HasRef(Pruned(current))
      BY <1>4 DEF PruneRefs, AfterPrune, CheckFails, ReturnNoWrite,
         ReturnRun, Release, Step
    <3>2. pc'[Rec] \notin {"r_lock", "r_upd"}
      BY <1>4 DEF PruneRefs, AfterPrune, CheckFails, ReturnNoWrite,
         ReturnRun, Release, Step
    <3>3. QED
      BY <3>1, <3>2 DEF RecInv, HasRef
  <2>5. LockInv' /\ FreshInv' /\ HandlerInv'
    BY <1>0, <1>4 DEF PruneRefs, WritePod, Pruned, AfterPrune, HasRef,
       current, Release, Step, CheckFails, DropCopy, ReturnNoWrite,
       ReturnRun, LockInv, WorkerCritical, RecCritical, FreshInv, HandlerInv,
       Pod
  <2>6. QED
    BY <2>1, <2>2, <2>3, <2>4, <2>5 DEF IInv, TypeOK
<1>5. ASSUME RecMark, UNCHANGED faults PROVE IInv'
  <2>1. ApiTypes'
    BY <1>0, <1>5 DEF RecMark, WritePod, TimeAfterDelay, current, Release,
       CheckFails, DropCopy, ReturnNoWrite, ReturnRun, Pod, KnownInv, Known
  <2>2. ThreadTypes' /\ KubeletTypes'
    <3>1. lock' \in Threads \cup {Nobody}
          /\ pc' \in [Threads -> WorkerLabels \cup RecLabels]
           /\ pc'[Rec] \in RecLabels /\ (\A v \in Workers : pc'[v] = pc[v])
      BY <1>5 DEF RecMark, current, Release, CheckFails, ReturnNoWrite,
         ReturnRun
    <3>2. alive' \subseteq Targets /\ again' \in BOOLEAN
          /\ existTargets' \subseteq Targets
      BY <1>5 DEF RecMark, current, Release, CheckFails, ReturnNoWrite,
         ReturnRun, Pod
    <3>3. QED
      BY <1>0, <3>1, <3>2
  <2>3. LockInv' /\ FreshInv'
    BY <1>0, <1>5 DEF RecMark, WritePod, TimeAfterDelay, current, Release,
       CheckFails, DropCopy, ReturnNoWrite, ReturnRun, LockInv,
       WorkerCritical, RecCritical, FreshInv
  <2>4. KnownInv'
    BY <1>0, <1>5 DEF RecMark, WritePod, TimeAfterDelay, current, Release,
       CheckFails, DropCopy, ReturnNoWrite, ReturnRun, KnownInv, Known,
       FreshInv, Pod
  <2>5. HandlerInv'
    BY <1>0, <1>5 DEF RecMark, WritePod, TimeAfterDelay, current, Release,
       CheckFails, DropCopy, ReturnNoWrite, ReturnRun, HandlerInv, LockInv,
       WorkerCritical, RecCritical, FreshInv, Pod
  <2>6. RecInv'
    BY <1>0, <1>5 DEF RecMark, WritePod, TimeAfterDelay, current, Release,
       CheckFails, DropCopy, ReturnNoWrite, ReturnRun, RecInv, KnownInv,
       Known, Pod
  <2>7. QED
    BY <2>1, <2>2, <2>3, <2>4, <2>5, <2>6 DEF IInv, TypeOK
<1>6. ASSUME RecDelete, UNCHANGED faults PROVE IInv'
  <2>1. ApiTypes'
    BY <1>0, <1>6 DEF RecDelete, DeletePod, Terminating, WritePod, Release,
       ReturnNoWrite, ReturnRun, Pod, KnownInv, Known
  <2>2. ThreadTypes' /\ KubeletTypes'
    <3>1. lock' \in Threads \cup {Nobody}
          /\ pc' \in [Threads -> WorkerLabels \cup RecLabels]
           /\ pc'[Rec] \in RecLabels /\ (\A v \in Workers : pc'[v] = pc[v])
      BY <1>6 DEF RecDelete, DeletePod, Release, ReturnNoWrite, ReturnRun
    <3>2. alive' \subseteq Targets /\ again' \in BOOLEAN
          /\ existTargets' \subseteq Targets
      BY <1>6 DEF RecDelete, DeletePod, Release, ReturnNoWrite, ReturnRun, Pod
    <3>3. QED
      BY <1>0, <3>1, <3>2
  <2>3. LockInv' /\ FreshInv' /\ KnownInv' /\ HandlerInv' /\ RecInv'
    BY <1>0, <1>6 DEF RecDelete, DeletePod, Terminating, WritePod, Release,
       ReturnNoWrite, ReturnRun, LockInv, WorkerCritical, RecCritical,
       FreshInv, KnownInv, Known, Pod, HandlerInv, RecInv
  <2>4. QED
    BY <2>1, <2>2, <2>3 DEF IInv, TypeOK
<1>7. ASSUME RecRefetch, UNCHANGED faults PROVE IInv'
  <2>1. ApiTypes'
    BY <1>0, <1>7 DEF RecRefetch, GetPod, Step, ReturnNoWrite, ReturnRun,
       Release, Pod, KnownInv, Known
  <2>2. ThreadTypes' /\ KubeletTypes'
    <3>1. lock' \in Threads \cup {Nobody}
          /\ pc' \in [Threads -> WorkerLabels \cup RecLabels]
           /\ pc'[Rec] \in RecLabels /\ (\A v \in Workers : pc'[v] = pc[v])
      BY <1>7 DEF RecRefetch, Step, ReturnNoWrite, ReturnRun, Release
    <3>2. alive' \subseteq Targets /\ again' \in BOOLEAN
          /\ existTargets' \subseteq Targets
      BY <1>7 DEF RecRefetch, Step, ReturnNoWrite, ReturnRun, Release, Pod
    <3>3. QED
      BY <1>0, <3>1, <3>2
  <2>3. LockInv' /\ FreshInv' /\ KnownInv' /\ HandlerInv' /\ RecInv'
    BY <1>0, <1>7 DEF RecRefetch, GetPod, Step, ReturnNoWrite, ReturnRun,
       Release, LockInv, WorkerCritical, RecCritical, FreshInv, KnownInv,
       Known, Pod, HandlerInv, RecInv
  <2>4. QED
    BY <2>1, <2>2, <2>3 DEF IInv, TypeOK
<1>8. ASSUME Dispatch, UNCHANGED faults PROVE IInv'
  <2>1. ApiTypes'
    BY <1>0, <1>8 DEF Dispatch, GetPod, Step, ReturnNoWrite, ReturnRun,
       Release, Pod, KnownInv, Known
  <2>2. ThreadTypes' /\ KubeletTypes'
    BY <1>0, <1>8 DEF Dispatch, GetPod, Step, ReturnNoWrite, ReturnRun,
       Release, Pod
  <2>3. LockInv' /\ FreshInv' /\ KnownInv' /\ HandlerInv' /\ RecInv'
    BY <1>0, <1>8 DEF Dispatch, GetPod, Step, ReturnNoWrite, ReturnRun,
       Release, LockInv, WorkerCritical, RecCritical, FreshInv, KnownInv,
       Known, Pod, HandlerInv, RecInv
  <2>4. QED
    BY <2>1, <2>2, <2>3 DEF IInv, TypeOK
<1>9. ASSUME RemoveFinalizer, UNCHANGED faults PROVE IInv'
  <2>1. ApiTypes'
    <3>1. [current EXCEPT !.fin = FALSE] \in Pod
      BY PodEdits DEF current
    <3>2. api' \in Pod /\ secret' = secret /\ fresh' \subseteq Threads
      BY <1>9, <3>1 DEF RemoveFinalizer, WritePod, ReturnNoWrite, ReturnRun
    <3>3. view' \in [Threads -> Pod]
      BY <1>9, <3>1 DEF RemoveFinalizer, ReturnNoWrite, ReturnRun
    <3>4. QED
      BY <1>0, <1>9, <3>2, <3>3
  <2>2. ThreadTypes' /\ KubeletTypes'
    <3>1. lock' \in Threads \cup {Nobody}
          /\ pc' \in [Threads -> WorkerLabels \cup RecLabels]
           /\ pc'[Rec] \in RecLabels /\ (\A v \in Workers : pc'[v] = pc[v])
      BY <1>9 DEF RemoveFinalizer, current, HasRef, Step, ReturnNoWrite,
         ReturnRun, Release
    <3>2. alive' \subseteq Targets /\ again' \in BOOLEAN
          /\ existTargets' \subseteq Targets
      BY <1>9 DEF RemoveFinalizer, current, HasRef, Step, ReturnNoWrite,
         ReturnRun, Release, Pod
    <3>3. QED
      BY <1>0, <3>1, <3>2
  <2>3. LockInv' /\ FreshInv' /\ KnownInv' /\ HandlerInv' /\ RecInv'
    BY <1>0, <1>9 DEF RemoveFinalizer, current, WritePod, HasRef, Step,
       ReturnNoWrite, ReturnRun, Release, LockInv, WorkerCritical,
       RecCritical, FreshInv, KnownInv, Known, Pod, HandlerInv, RecInv
  <2>4. QED
    BY <2>1, <2>2, <2>3 DEF IInv, TypeOK
<1>10. ASSUME RecWaitLock, UNCHANGED faults PROVE IInv'
  BY <1>0, <1>10 DEF RecWaitLock, Acquire, NoRequest, Pod, KnownInv, Known,
     LockInv, WorkerCritical, RecCritical, FreshInv, HandlerInv, RecInv
<1>11. ASSUME RecWaitGone, UNCHANGED faults PROVE IInv'
  BY <1>0, <1>11 DEF RecWaitGone, Step, NoRequest, GetPod, Pod, KnownInv,
     Known, LockInv, WorkerCritical, RecCritical, FreshInv, HandlerInv,
     RecInv
<1>12. ASSUME RecGiveUp, UNCHANGED faults PROVE IInv'
  <2>1. ApiTypes'
    BY <1>0, <1>12 DEF RecGiveUp, ReturnNoWrite, ReturnRun, Release, Pod,
       KnownInv, Known
  <2>2. ThreadTypes' /\ KubeletTypes'
    BY <1>0, <1>12 DEF RecGiveUp, ReturnNoWrite, ReturnRun, Release, Pod
  <2>3. LockInv' /\ FreshInv' /\ KnownInv' /\ HandlerInv' /\ RecInv'
    BY <1>0, <1>12 DEF RecGiveUp, ReturnNoWrite, ReturnRun, Release, LockInv,
       WorkerCritical, RecCritical, FreshInv, KnownInv, Known, Pod,
       HandlerInv, RecInv
  <2>4. QED
    BY <2>1, <2>2, <2>3 DEF IInv, TypeOK
<1>13. ASSUME Recreate, UNCHANGED faults PROVE IInv'
  <2>1. ApiTypes'
    <3>1. Recreated(current) \in Pod
      BY PodEdits DEF current
    <3>2. api' \in Pod /\ secret' = secret /\ fresh' \subseteq Threads
      BY <1>13, <3>1 DEF Recreate, WritePod, ReturnNoWrite, ReturnRun
    <3>3. view' \in [Threads -> Pod]
      BY <1>13, <3>1 DEF Recreate, ReturnNoWrite, ReturnRun
    <3>4. QED
      BY <1>0, <1>13, <3>2, <3>3
  <2>2. ThreadTypes' /\ KubeletTypes'
    BY <1>0, <1>13 DEF Recreate, WritePod, Recreated, current, ReturnNoWrite,
       ReturnRun, Release, Pod
  <2>3. LockInv' /\ FreshInv'
    BY <1>0, <1>13 DEF Recreate, WritePod, Recreated, current, ReturnNoWrite,
       ReturnRun, Release, LockInv, WorkerCritical, RecCritical, FreshInv
  <2>4. KnownInv'
    <3>1. Recreated(current).refs = current.refs
          /\ current.refs \subseteq Known
      BY PodEdits DEF KnownInv, current
    <3>2. QED
      BY <1>0, <1>13, <3>1 DEF Recreate, WritePod, ReturnNoWrite, ReturnRun,
         Release, KnownInv, Known
  <2>5. HandlerInv'
    BY <1>0, <1>13 DEF Recreate, WritePod, Recreated, current, ReturnNoWrite,
       ReturnRun, Release, HandlerInv, LockInv, WorkerCritical, RecCritical,
       FreshInv, Pod
  <2>6. RecInv'
    BY <1>0, <1>13 DEF Recreate, WritePod, Recreated, current, ReturnNoWrite,
       ReturnRun, Release, RecInv, KnownInv, Known, Pod
  <2>7. QED
    BY <2>1, <2>2, <2>3, <2>4, <2>5, <2>6 DEF IInv, TypeOK
<1>14. ASSUME Merge, UNCHANGED faults PROVE IInv'
  <2>1. ApiTypes'
    <3>1. [current EXCEPT !.refs = @ \cup existTargets] \in Pod
      <4>1. current \in Pod
            /\ current.refs \cup existTargets \in SUBSET Targets
        BY DEF current, Pod
      <4>2. QED
        BY <4>1, PodEdits
    <3>2. api' \in Pod /\ secret' = secret /\ fresh' \subseteq Threads
      BY <1>14, <3>1 DEF Merge, WritePod, ReturnNoWrite, ReturnRun
    <3>3. view' \in [Threads -> Pod]
      BY <1>14 DEF Merge, ReturnNoWrite, ReturnRun
    <3>4. QED
      BY <1>0, <1>14, <3>2, <3>3
  <2>2. ThreadTypes' /\ KubeletTypes'
    <3>1. lock' \in Threads \cup {Nobody}
          /\ pc' \in [Threads -> WorkerLabels \cup RecLabels]
           /\ pc'[Rec] \in RecLabels /\ (\A v \in Workers : pc'[v] = pc[v])
      BY <1>14 DEF Merge, current, ReturnNoWrite, ReturnRun, Release
    <3>2. alive' \subseteq Targets /\ again' \in BOOLEAN
          /\ existTargets' \subseteq Targets
      BY <1>14 DEF Merge, current, ReturnNoWrite, ReturnRun, Release, Pod
    <3>3. QED
      BY <1>0, <3>1, <3>2
  <2>3. LockInv' /\ FreshInv' /\ KnownInv' /\ HandlerInv' /\ RecInv'
    BY <1>0, <1>14 DEF Merge, WritePod, current, ReturnNoWrite, ReturnRun,
       Release, LockInv, WorkerCritical, RecCritical, FreshInv, KnownInv,
       Known, Pod, HandlerInv, RecInv
  <2>4. QED
    BY <2>1, <2>2, <2>3 DEF IInv, TypeOK
<1>15. ASSUME ErrLock, UNCHANGED faults PROVE IInv'
  BY <1>0, <1>15 DEF ErrLock, Acquire, NoRequest, Pod, KnownInv, Known,
     LockInv, WorkerCritical, RecCritical, FreshInv, HandlerInv, RecInv
<1>16. ASSUME ErrRemoveFinalizer, UNCHANGED faults PROVE IInv'
  <2>1. ApiTypes'
    <3>1. [current EXCEPT !.fin = FALSE] \in Pod
      BY PodEdits DEF current
    <3>2. api' \in Pod /\ secret' = secret /\ fresh' \subseteq Threads
      BY <1>16, <3>1 DEF ErrRemoveFinalizer, WritePod, ReturnNoWrite, ReturnRun
    <3>3. view' \in [Threads -> Pod]
      BY <1>16, <3>1 DEF ErrRemoveFinalizer, ReturnNoWrite, ReturnRun
    <3>4. QED
      BY <1>0, <1>16, <3>2, <3>3
  <2>2. ThreadTypes' /\ KubeletTypes'
    <3>1. lock' \in Threads \cup {Nobody}
          /\ pc' \in [Threads -> WorkerLabels \cup RecLabels]
           /\ pc'[Rec] \in RecLabels /\ (\A v \in Workers : pc'[v] = pc[v])
      BY <1>16 DEF ErrRemoveFinalizer, current, Step, ReturnNoWrite,
         ReturnRun, Release
    <3>2. alive' \subseteq Targets /\ again' \in BOOLEAN
          /\ existTargets' \subseteq Targets
      BY <1>16 DEF ErrRemoveFinalizer, current, Step, ReturnNoWrite,
         ReturnRun, Release, Pod
    <3>3. QED
      BY <1>0, <3>1, <3>2
  <2>3. LockInv' /\ FreshInv' /\ KnownInv' /\ HandlerInv' /\ RecInv'
    BY <1>0, <1>16 DEF ErrRemoveFinalizer, WritePod, current, Step,
       ReturnNoWrite, ReturnRun, Release, LockInv, WorkerCritical,
       RecCritical, FreshInv, KnownInv, Known, Pod, HandlerInv, RecInv
  <2>4. QED
    BY <2>1, <2>2, <2>3 DEF IInv, TypeOK
<1>17. ASSUME ErrDelete, UNCHANGED faults PROVE IInv'
  <2>1. ApiTypes'
    BY <1>0, <1>17 DEF ErrDelete, DeletePod, Terminating, WritePod, Step,
       ReturnNoWrite, ReturnRun, Release, Pod, KnownInv, Known
  <2>2. ThreadTypes' /\ KubeletTypes'
    <3>1. lock' \in Threads \cup {Nobody}
          /\ pc' \in [Threads -> WorkerLabels \cup RecLabels]
           /\ pc'[Rec] \in RecLabels /\ (\A v \in Workers : pc'[v] = pc[v])
      BY <1>17 DEF ErrDelete, DeletePod, Step, ReturnNoWrite, ReturnRun,
         Release
    <3>2. alive' \subseteq Targets /\ again' \in BOOLEAN
          /\ existTargets' \subseteq Targets
      BY <1>17 DEF ErrDelete, DeletePod, Step, ReturnNoWrite, ReturnRun,
         Release, Pod
    <3>3. QED
      BY <1>0, <3>1, <3>2
  <2>3. LockInv' /\ FreshInv' /\ KnownInv' /\ HandlerInv' /\ RecInv'
    BY <1>0, <1>17 DEF ErrDelete, DeletePod, Terminating, WritePod, Step,
       ReturnNoWrite, ReturnRun, Release, LockInv, WorkerCritical,
       RecCritical, FreshInv, KnownInv, Known, Pod, HandlerInv, RecInv
  <2>4. QED
    BY <2>1, <2>2, <2>3 DEF IInv, TypeOK
<1>18. ASSUME ErrWaitGone, UNCHANGED faults PROVE IInv'
  BY <1>0, <1>18 DEF ErrWaitGone, Step, NoRequest, Pod, KnownInv, Known,
     LockInv, WorkerCritical, RecCritical, FreshInv, HandlerInv, RecInv
<1>19. ASSUME ErrGiveUp, UNCHANGED faults PROVE IInv'
  <2>1. ApiTypes'
    BY <1>0, <1>19 DEF ErrGiveUp, ReturnNoWrite, ReturnRun, Release, Pod,
       KnownInv, Known
  <2>2. ThreadTypes' /\ KubeletTypes'
    BY <1>0, <1>19 DEF ErrGiveUp, ReturnNoWrite, ReturnRun, Release, Pod
  <2>3. LockInv' /\ FreshInv' /\ KnownInv' /\ HandlerInv' /\ RecInv'
    BY <1>0, <1>19 DEF ErrGiveUp, ReturnNoWrite, ReturnRun, Release, LockInv,
       WorkerCritical, RecCritical, FreshInv, KnownInv, Known, Pod,
       HandlerInv, RecInv
  <2>4. QED
    BY <2>1, <2>2, <2>3 DEF IInv, TypeOK
<1>20. ASSUME ErrRecreate, UNCHANGED faults PROVE IInv'
  <2>1. ApiTypes'
    <3>1. [Recreated(current) EXCEPT !.res = FALSE] \in Pod
      BY PodEdits DEF current
    <3>2. api' \in Pod /\ secret' = secret /\ fresh' \subseteq Threads
      BY <1>20, <3>1 DEF ErrRecreate, WritePod, ReturnNoWrite, ReturnRun
    <3>3. view' \in [Threads -> Pod]
      BY <1>20, <3>1 DEF ErrRecreate, ReturnNoWrite, ReturnRun
    <3>4. QED
      BY <1>0, <1>20, <3>2, <3>3
  <2>2. ThreadTypes' /\ KubeletTypes'
    BY <1>0, <1>20 DEF ErrRecreate, WritePod, Recreated, current,
       ReturnNoWrite, ReturnRun, Release, Pod
  <2>3. KnownInv'
    <3>1. [Recreated(current) EXCEPT !.res = FALSE].refs = current.refs
          /\ current.refs \subseteq Known
      BY PodEdits DEF KnownInv, current
    <3>2. QED
      BY <1>0, <1>20, <3>1 DEF ErrRecreate, WritePod, ReturnNoWrite,
         ReturnRun, Release, KnownInv, Known
  <2>4. LockInv' /\ FreshInv' /\ HandlerInv' /\ RecInv'
    BY <1>0, <1>20 DEF ErrRecreate, WritePod, Recreated, current,
       ReturnNoWrite, ReturnRun, Release, LockInv, WorkerCritical,
       RecCritical, FreshInv, HandlerInv, Pod, RecInv, KnownInv, Known
  <2>5. QED
    BY <2>1, <2>2, <2>3, <2>4 DEF IInv, TypeOK
<1>21. ASSUME RecApiError PROVE IInv'
  <2>1. ApiTypes'
    BY <1>0, <1>21 DEF RecApiError, OneShot, ReturnNoWrite, ReturnRun,
       Release, Pod, KnownInv, Known
  <2>2. ThreadTypes' /\ KubeletTypes'
    BY <1>0, <1>21 DEF RecApiError, OneShot, ReturnNoWrite, ReturnRun,
       Release, Pod
  <2>3. LockInv' /\ FreshInv' /\ KnownInv' /\ HandlerInv' /\ RecInv'
    BY <1>0, <1>21 DEF RecApiError, OneShot, ReturnNoWrite, ReturnRun,
       Release, LockInv, WorkerCritical, RecCritical, FreshInv, KnownInv,
       Known, Pod, HandlerInv, RecInv
  <2>4. QED
    BY <2>1, <2>2, <2>3 DEF IInv, TypeOK
<1>22. QED
  BY <1>0, <1>1, <1>2, <1>3, <1>4, <1>5, <1>6, <1>7, <1>8, <1>9, <1>10,
     <1>11, <1>12, <1>13, <1>14, <1>15, <1>16, <1>17, <1>18, <1>19, <1>20,
     <1>21 DEF Reconciler, RunStep

(* Application pods and calls of the kubelet keep the invariant. *)
LEMMA KubeletPreserves ==
    ASSUME IInv, Kubelet
    PROVE  IInv'
<1> USE ThreadAssumption, AbsentType DEF IInv, TypeOK, ApiTypes, ThreadTypes,
        KubeletTypes, Goto, Threads, mountVars, driverVars, kubeletVars,
        WorkerLabels, PublishLabels, UnpublishLabels
<1>1. ASSUME NEW t \in Targets, AppStart(t) PROVE IInv'
  BY <1>1 DEF AppStart, SetApp, apiVars, mountVars, Pod, KnownInv, Known,
     LockInv, WorkerCritical, RecCritical, FreshInv, HandlerInv, RecInv
<1>2. ASSUME NEW t \in Targets, AppDelete(t) PROVE IInv'
  BY <1>2 DEF AppDelete, SetApp, apiVars, mountVars, Pod, KnownInv, Known,
     LockInv, WorkerCritical, RecCritical, FreshInv, HandlerInv, RecInv
<1>3. ASSUME NEW t \in Targets, AppGone(t) PROVE IInv'
  BY <1>3 DEF AppGone, SetApp, apiVars, mountVars, Pod, KnownInv, Known,
     LockInv, WorkerCritical, RecCritical, FreshInv, HandlerInv, RecInv
<1>4. ASSUME NEW t \in Targets, NEW w \in Workers, NodePublishVolume(t, w) PROVE IInv'
  BY <1>4 DEF NodePublishVolume, StartCall, Pod, KnownInv, Known, LockInv,
     WorkerCritical, RecCritical, FreshInv, HandlerInv, RecInv
<1>5. ASSUME NEW t \in Targets, NEW w \in Workers, NodeUnpublishVolume(t, w) PROVE IInv'
  BY <1>5 DEF NodeUnpublishVolume, StartCall, Pod, KnownInv, Known, LockInv,
     WorkerCritical, RecCritical, FreshInv, HandlerInv, RecInv
<1>6. ASSUME NEW w \in Workers, Collect(w) PROVE IInv'
  BY <1>6 DEF Collect, VolumeAfter, Pod, KnownInv, Known, LockInv,
     WorkerCritical, RecCritical, FreshInv, HandlerInv, RecInv
<1>7. ASSUME NEW t \in Targets, CallTimeout(t) PROVE IInv'
  BY <1>7 DEF CallTimeout, OneShot, mountVars, Pod, KnownInv, Known, LockInv,
     WorkerCritical, RecCritical, FreshInv, HandlerInv, RecInv
<1>8. QED
  BY <1>1, <1>2, <1>3, <1>4, <1>5, <1>6, <1>7 DEF Kubelet

(* What happens to the mount pod, and restarts, keep the invariant. *)
LEMMA ClusterPreserves ==
    ASSUME IInv, Cluster
    PROVE  IInv'
<1> USE ThreadAssumption, AbsentType DEF IInv, TypeOK, ApiTypes, ThreadTypes,
        KubeletTypes, Goto, Threads, mountVars, driverVars, kubeletVars,
        WorkerLabels, PublishLabels, UnpublishLabels, RecLabels
<1>1. ASSUME PodReady PROVE IInv'
  BY <1>1 DEF PodReady, WritePod, ClusterFrame, Pod, KnownInv, Known,
     LockInv, WorkerCritical, RecCritical, FreshInv, HandlerInv, RecInv
<1>2. ASSUME PodStops PROVE IInv'
  BY <1>2 DEF PodStops, WritePod, ClusterFrame, Pod, KnownInv, Known,
     LockInv, WorkerCritical, RecCritical, FreshInv, HandlerInv, RecInv
<1>3. ASSUME PodDisappears PROVE IInv'
  BY <1>3 DEF PodDisappears, Secret, WithoutOwner, ClusterFrame, Pod,
     KnownInv, Known, LockInv, WorkerCritical, RecCritical, FreshInv,
     HandlerInv, RecInv
<1>4. ASSUME PodRestarts PROVE IInv'
  BY <1>4 DEF PodRestarts, WritePod, ClusterFrame, Pod, KnownInv, Known,
     LockInv, WorkerCritical, RecCritical, FreshInv, HandlerInv, RecInv
<1>5. ASSUME PodFails PROVE IInv'
  BY <1>5 DEF PodFails, OneShot, WritePod, ClusterFrame, Pod, KnownInv,
     Known, LockInv, WorkerCritical, RecCritical, FreshInv, HandlerInv,
     RecInv
<1>6. ASSUME PodRejected PROVE IInv'
  BY <1>6 DEF PodRejected, OneShot, WritePod, ClusterFrame, Pod, KnownInv,
     Known, LockInv, WorkerCritical, RecCritical, FreshInv, HandlerInv,
     RecInv
<1>7. ASSUME UserDeletesPod PROVE IInv'
  BY <1>7 DEF UserDeletesPod, OneShot, Terminating, WritePod, ClusterFrame,
     Pod, KnownInv, Known, LockInv, WorkerCritical, RecCritical, FreshInv,
     HandlerInv, RecInv
<1>8. ASSUME Tick PROVE IInv'
  BY <1>8 DEF Tick, Pod, KnownInv, Known, LockInv, WorkerCritical,
     RecCritical, FreshInv, HandlerInv, RecInv
<1>9. ASSUME Crash PROVE IInv'
  <2>1. ApiTypes'
    BY <1>9 DEF Crash, OneShot, Restart, Pod, KnownInv, Known
  <2>2. ThreadTypes' /\ KubeletTypes'
    BY <1>9 DEF Crash, OneShot, Restart, Pod
  <2>3. LockInv' /\ FreshInv' /\ KnownInv' /\ HandlerInv' /\ RecInv'
    BY <1>9 DEF Crash, OneShot, Restart, LockInv, WorkerCritical,
       RecCritical, FreshInv, KnownInv, Known, Pod, HandlerInv, RecInv
  <2>4. QED
    BY <2>1, <2>2, <2>3 DEF IInv, TypeOK
<1>10. ASSUME Panic PROVE IInv'
  <2>1. ApiTypes'
    BY <1>10 DEF Panic, Restart, Pod, KnownInv, Known
  <2>2. ThreadTypes' /\ KubeletTypes'
    BY <1>10 DEF Panic, Restart, Pod
  <2>3. LockInv' /\ FreshInv' /\ KnownInv' /\ HandlerInv' /\ RecInv'
    BY <1>10 DEF Panic, Restart, LockInv, WorkerCritical, RecCritical,
       FreshInv, KnownInv, Known, Pod, HandlerInv, RecInv
  <2>4. QED
    BY <2>1, <2>2, <2>3 DEF IInv, TypeOK
<1>11. ASSUME SecretCollected PROVE IInv'
  BY <1>11 DEF SecretCollected, Secret, ClusterFrame, Pod, KnownInv, Known,
     LockInv, WorkerCritical, RecCritical, FreshInv, HandlerInv, RecInv
<1>12. QED
  BY <1>1, <1>2, <1>3, <1>4, <1>5, <1>6, <1>7, <1>8, <1>9, <1>10, <1>11 DEF
     Cluster

-----------------------------------------------------------------------------
(* A step that changes nothing keeps the invariant.                        *)
LEMMA StutterPreserves == IInv /\ UNCHANGED vars => IInv'
<1> SUFFICES ASSUME IInv, UNCHANGED vars PROVE IInv'
  OBVIOUS
<1>1. UNCHANGED <<api, secret, view, fresh, lock, pc, now, faults, tgt, alive,
                  again, existTargets, app, call, vol>>
  BY DEF vars, apiVars, mountVars, driverVars, kubeletVars
<1>2. QED
  BY <1>1 DEF IInv, TypeOK, ApiTypes, ThreadTypes, KubeletTypes, LockInv,
              FreshInv, KnownInv, Known, HandlerInv, RecInv

(* The invariant holds when the plugin starts for the first time, with no  *)
(* mount pod and no application pod.                                       *)
LEMMA InitInv == Init => IInv
<1> SUFFICES ASSUME Init PROVE IInv
  OBVIOUS
<1> USE ThreadAssumption, AbsentType DEF Init, Threads
<1>1. ApiTypes /\ KubeletTypes
  BY DEF ApiTypes, Secret, KubeletTypes
<1>2. ThreadTypes
  BY DEF ThreadTypes, WorkerLabels, RecLabels
<1>3. LockInv
  BY DEF LockInv, WorkerCritical, RecCritical
<1>4. FreshInv /\ KnownInv /\ HandlerInv /\ RecInv
  BY DEF FreshInv, KnownInv, HandlerInv, RecInv
<1>5. QED
  BY <1>1, <1>2, <1>3, <1>4 DEF IInv, TypeOK

(* Every step keeps the invariant.                                         *)
LEMMA StepPreserves == IInv /\ [Next]_vars => IInv'
BY HandlerPreserves, ReconcilerPreserves, KubeletPreserves, ClusterPreserves,
   StutterPreserves DEF Next

(* The inductive invariant holds in every reachable state: the lock        *)
(* protocol of GetPodLock, the meaning of a fresh copy, and what each      *)
(* thread may rely on between two of its requests.                         *)
THEOREM Invariance == Spec => []IInv
<1>1. QED
  BY InitInv, StepPreserves, PTL DEF Spec

(* Type correctness of the whole node side.                                *)
THEOREM TypeCorrect == Spec => []TypeOK
<1>1. IInv => TypeOK
  BY DEF IInv
<1>2. QED
  BY <1>1, Invariance, PTL

(* createOrAddRef never reaches the nil dereference behind CreatePod as    *)
(* long as requests do not fail for a reason of their own.                 *)
THEOREM NoPanicHolds ==
    ASSUME "apiError" \notin Faults
    PROVE  Spec => []NoPanic
<1>1. IInv => NoPanic
  BY DEF IInv, HandlerInv, NoPanic
<1>2. QED
  BY <1>1, Invariance, PTL

(* JUmount deletes the mount pod by name only when it has no reference.    *)
THEOREM UmountDeletesUnusedHolds == Spec => []UmountDeletesUnused
<1>1. IInv => UmountDeletesUnused
  BY DEF IInv, HandlerInv, UmountDeletesUnused, HasRef
<1>2. QED
  BY <1>1, Invariance, PTL

(* JUmount deletes a mount pod with a delete delay only past its deadline. *)
THEOREM UmountHonoursDelayHolds == Spec => []UmountHonoursDelay
<1>1. IInv => UmountHonoursDelay
  BY DEF IInv, HandlerInv, UmountHonoursDelay
<1>2. QED
  BY <1>1, Invariance, PTL

-----------------------------------------------------------------------------
(* A handler moves its own program counter only. *)
LEMMA HandlerMoves ==
    ASSUME IInv, NEW w \in Workers, Handler(w)
    PROVE  pc'[Rec] = pc[Rec]
<1>1. \E label \in WorkerLabels : pc' = [pc EXCEPT ![w] = label]
  BY DEF Handler, HandlerStep, JMount, JUmount, PubLock, PubGet, PubGiveUp,
         PubCreate, PubSecret, AddRefGet, AddRefUpdate, WaitUtilPodReady,
         WaitReadyExpires, UmountLock, UmountGet, UmountRefGet,
         UmountRefUpdate, UmountNewGet, UmountDelGet, UmountMark,
         UmountDelete, WorkerApiError, LocalError, UpdateFails, Acquire, Step,
         Release, Goto, WorkerLabels, PublishLabels, UnpublishLabels
<1>2. QED
  BY <1>1, ThreadAssumption DEF IInv, TypeOK, ThreadTypes, Threads

(* One step of checkAnnotations' first pass, or any other step.            *)
LEMMA FirstPassStep ==
    ASSUME IInv, [Next]_vars,
           pc[Rec] = "r_upd", pc'[Rec] # "r_upd", ~again
    PROVE  \A t \in api.refs \ api'.refs : app[t] # "running"
<1>1. CASE \E w \in Workers : Handler(w)
  BY <1>1, HandlerMoves
<1>2. CASE Reconciler
  <2>1. CASE PruneRefs /\ Rec \in fresh
    <3>1. api.refs = view[Rec].refs
      BY <2>1 DEF IInv, FreshInv
    <3>2. api'.refs = view[Rec].refs \cap alive
      BY <2>1 DEF PruneRefs, CheckFails, WritePod, Pruned, current, IInv,
                  TypeOK, ApiTypes, Threads, Pod
    <3>3. QED
      BY <3>1, <3>2 DEF IInv, RecInv
  <2>2. CASE PruneRefs /\ Rec \notin fresh
    BY <2>2 DEF PruneRefs, CheckFails, DropCopy, ReturnNoWrite
  <2>3. CASE RecApiError
    BY <2>3 DEF RecApiError, ReturnNoWrite
  <2>4. QED
    BY <1>2, <2>1, <2>2, <2>3
       DEF Reconciler, RunStep, RecList, RecApps, CheckAnnotations, RecMark,
           RecDelete, RecRefetch, Dispatch, RemoveFinalizer, RecWaitLock,
           RecWaitGone, RecGiveUp, Recreate, Merge, ErrLock,
           ErrRemoveFinalizer, ErrDelete, ErrWaitGone, ErrGiveUp, ErrRecreate
<1>3. CASE Kubelet
  <2>1. api' = api
    BY <1>3 DEF Kubelet, AppStart, AppDelete, AppGone, SetApp, apiVars,
                CallTimeout, NodePublishVolume, NodeUnpublishVolume,
                StartCall, Collect
  <2>2. QED
    BY <2>1
<1>4. CASE Cluster
  <2>1. CASE Crash \/ Panic
    BY <2>1 DEF Crash, Panic, Restart
  <2>2. QED
    BY <1>4, <2>1 DEF Cluster, PodReady, PodStops, PodDisappears, PodRestarts,
                      PodFails, PodRejected, UserDeletesPod, SecretCollected, Tick,
                      ClusterFrame
<1>5. CASE UNCHANGED vars
  BY <1>5 DEF vars, apiVars
<1>6. QED
  BY <1>1, <1>2, <1>3, <1>4, <1>5 DEF Next

(* In the first pass of a round checkAnnotations drops the references of   *)
(* deleted application pods only: the list it works from is at least as    *)
(* new as its copy of the mount pod, and an Update from an old copy fails. *)
THEOREM FirstPassHolds == Spec => FirstPassDropsOnlyDeleted
<1>1. IInv /\ [Next]_vars =>
        [(pc[Rec] = "r_upd" /\ pc'[Rec] # "r_upd" /\ ~again) =>
           \A t \in api.refs \ api'.refs : app[t] # "running"]_vars
  BY FirstPassStep
<1>2. QED
  BY <1>1, Invariance, PTL DEF Spec, FirstPassDropsOnlyDeleted

-----------------------------------------------------------------------------
(* One step that sets a deadline. *)
LEMMA MarkStep ==
    ASSUME IInv, [Next]_vars,
           api.phase # "absent", api.delayAt = 0, api'.delayAt > 0
    PROVE  ~HasRef(api) /\ ~HasRef(api')
<1> USE ThreadAssumption DEF IInv, TypeOK, ApiTypes, Threads
<1>1. ASSUME NEW w \in Workers, Handler(w)
      PROVE  ~HasRef(api) /\ ~HasRef(api')
  <2>1. CASE UmountMark(w)
    BY <2>1 DEF UmountMark, UpdateAndDrop, UpdateFails, WritePod, DropCopy,
                FreshInv, HandlerInv, HasRef, Pod
  <2>2. CASE PubCreate(w)
    BY <2>2 DEF PubCreate, WritePod, NewMountPod, NoRequest, HandlerInv
  <2>3. CASE AddRefUpdate(w)
    <3> DEFINE new == [view[w] EXCEPT !.refs = @ \cup {tgt[w]}, !.delayAt = 0]
    <3>1. new.delayAt = 0
      BY DEF Pod
    <3>2. api' = new \/ api' = api
      BY <2>3 DEF AddRefUpdate, UpdateAndDrop, UpdateFails, WritePod, DropCopy
    <3> HIDE DEF new
    <3>3. QED
      BY <3>1, <3>2
  <2>4. CASE UmountRefUpdate(w)
    BY <2>4 DEF UmountRefUpdate, UpdateAndDrop, UpdateFails, WritePod,
                DropCopy, FreshInv, Pod
  <2>5. CASE UmountDelete(w)
    BY <2>5 DEF UmountDelete, DeletePod, Terminating, WritePod, NoRequest, Pod
  <2>6. QED
    BY <1>1, <2>1, <2>2, <2>3, <2>4, <2>5
       DEF Handler, HandlerStep, JMount, JUmount, PubLock, PubGet, PubGiveUp,
           PubSecret, AddRefGet, WaitUtilPodReady, WaitReadyExpires, UmountLock,
           UmountGet, UmountRefGet, UmountNewGet, UmountDelGet,
           WorkerApiError, LocalError, NoRequest, GetPod, DropCopy
<1>2. CASE Reconciler
  <2>1. CASE PruneRefs
    <3>1. Pruned(current).delayAt \in {0, current.delayAt}
      BY DEF Pruned, current, Pod
    <3>2. Rec \in fresh => current = api
      BY DEF current, FreshInv
    <3>3. QED
      BY <2>1, <3>1, <3>2 DEF PruneRefs, CheckFails, DropCopy, ReturnNoWrite,
                              WritePod
  <2>2. CASE RecMark
    BY <2>2 DEF RecMark, CheckFails, DropCopy, ReturnNoWrite, WritePod,
                current, FreshInv, RecInv, HasRef, Pod
  <2>3. CASE RecDelete \/ ErrDelete
    BY <2>3 DEF RecDelete, ErrDelete, DeletePod, Terminating, WritePod,
                ReturnNoWrite, Pod
  <2>4. CASE RemoveFinalizer \/ ErrRemoveFinalizer \/ Merge
    BY <2>4 DEF RemoveFinalizer, ErrRemoveFinalizer, Merge, WritePod, current,
                ReturnNoWrite, FreshInv, Pod
  <2>5. CASE Recreate \/ ErrRecreate
    BY <2>5 DEF Recreate, ErrRecreate, ReturnNoWrite
  <2>6. QED
    BY <1>2, <2>1, <2>2, <2>3, <2>4, <2>5
       DEF Reconciler, RunStep, RecList, RecApps, CheckAnnotations,
           RecRefetch, Dispatch, RecWaitLock, RecWaitGone, RecGiveUp, ErrLock,
           ErrWaitGone, ErrGiveUp, RecApiError, NoRequest, GetPod,
           ReturnNoWrite
<1>3. CASE Kubelet
  BY <1>3 DEF Kubelet, AppStart, AppDelete, AppGone, SetApp, apiVars,
              CallTimeout, NodePublishVolume, NodeUnpublishVolume, StartCall,
              Collect
<1>4. CASE Cluster
  BY <1>4 DEF Cluster, PodReady, PodStops, PodDisappears, PodRestarts,
              PodFails, PodRejected, UserDeletesPod, Tick, SecretCollected,
              Crash, Panic,
              Restart, WritePod, Terminating, Absent, Pod
<1>5. CASE UNCHANGED vars
  BY <1>5 DEF vars, apiVars
<1>6. QED
  BY <1>1, <1>2, <1>3, <1>4, <1>5 DEF Next

(* Neither JUmount nor the reconciler marks a pod in use with a deadline.  *)
THEOREM MarksOnlyUnusedHolds == Spec => MarksOnlyUnused
<1>1. IInv /\ [Next]_vars =>
        [(api.phase # "absent" /\ api.delayAt = 0 /\ api'.delayAt > 0) =>
           ~HasRef(api) /\ ~HasRef(api')]_vars
  BY MarkStep
<1>2. QED
  BY <1>1, Invariance, PTL DEF Spec, MarksOnlyUnused

-----------------------------------------------------------------------------
(* Without the reconciler and without users deleting the mount pod, the    *)
(* mutual exclusion of the handlers is enough to keep a mounted volume     *)
(* served.                                                                 *)

(* The mount pod has to serve t: its volume is mounted, or a publish has   *)
(* stored its reference.                                                   *)
Holds(t) ==
    \/ vol[t] = "mounted"
    \/ \E w \in Workers :
          tgt[w] = t /\ pc[w] \in {"p_newSecret", "p_wait", "p_ok"}

(* Strengthening of MountedIsReferenced: it holds from the moment the      *)
(* reference is stored, and JUmount runs only for application pods that    *)
(* are being deleted.                                                      *)
ServedInv ==
    /\ \A t \in Targets : (app[t] = "running" /\ Holds(t)) =>
           api.phase = "live" /\ t \in api.refs
    /\ \A t \in Targets : vol[t] = "mounted" => app[t] # "none"
    /\ \A w \in Workers : pc[w] \in UnpublishLabels =>
           app[tgt[w]] \in {"deleting", "gone"}

(* Steps of JMount and JUmount keep the volume of a running application    *)
(* pod served: a reference is dropped, and the pod deleted, only on behalf *)
(* of application pods that are being deleted.                             *)
LEMMA ServedHandler ==
    ASSUME IInv, ServedInv, NEW w \in Workers, Handler(w)
    PROVE  ServedInv'
<1> USE ThreadAssumption DEF IInv, TypeOK, ApiTypes, ThreadTypes,
        KubeletTypes, Threads, Goto
<1>0. UNCHANGED <<app, vol, tgt>>
  BY DEF Handler, HandlerStep, kubeletVars
<1>1. \A v \in Workers : pc'[v] \in UnpublishLabels =>
          app'[tgt'[v]] \in {"deleting", "gone"}
  BY <1>0 DEF Handler, HandlerStep, JMount, JUmount, PubLock, PubGet,
     PubGiveUp, PubCreate, PubSecret, AddRefGet, AddRefUpdate, WaitUtilPodReady,
     WaitReadyExpires, UmountLock, UmountGet, UmountRefGet, UmountRefUpdate,
     UmountNewGet, UmountDelGet, UmountMark, UmountDelete, WorkerApiError,
     LocalError, UpdateFails, Acquire, Step, Release, UnpublishLabels, PublishLabels,
     WorkerCritical, ServedInv
<1>2. ASSUME NEW t \in Targets, app[t] = "running", Holds(t)'
      PROVE  api'.phase = "live" /\ t \in api'.refs
  <2>1. CASE PubCreate(w)
    BY <1>0, <1>2, <2>1 DEF PubCreate, WritePod, NewMountPod, Release, Step,
       NoRequest, HandlerInv, ServedInv, Holds, Absent, Pod
  <2>2. CASE AddRefGet(w)
    BY <1>0, <1>2, <2>2 DEF AddRefGet, Release, Step, NoRequest, GetPod,
       ServedInv, Holds
  <2>3. CASE AddRefUpdate(w)
    <3> DEFINE new == [view[w] EXCEPT !.refs = @ \cup {tgt[w]}, !.delayAt = 0]
    <3>1. new.phase = view[w].phase /\ new.refs = view[w].refs \cup {tgt[w]}
      BY DEF Pod
    <3>2. CASE w \in fresh
      <4>1. api' = new /\ view[w] = api /\ pc' = [pc EXCEPT ![w] = "p_wait"]
        BY <2>3, <3>2 DEF AddRefUpdate, UpdateAndDrop, UpdateFails, WritePod,
                          Release, FreshInv
      <4>2. api.phase = "live"
        BY <2>3, <4>1 DEF AddRefUpdate, HandlerInv
      <4>3. QED
        BY <1>0, <1>2, <3>1, <4>1, <4>2 DEF ServedInv, Holds
    <3>3. CASE w \notin fresh
      BY <1>0, <1>2, <2>3, <3>3 DEF AddRefUpdate, UpdateAndDrop, UpdateFails,
         DropCopy, Release, Step, ServedInv, Holds
    <3>4. QED
      BY <3>2, <3>3
  <2>4. CASE UmountRefUpdate(w)
    BY <1>0, <1>2, <2>4 DEF UmountRefUpdate, UpdateAndDrop, UpdateFails,
       WritePod, DropCopy, Release, Step, FreshInv, ServedInv, Holds, Pod,
       UnpublishLabels
  <2>5. CASE UmountMark(w)
    BY <1>0, <1>2, <2>5 DEF UmountMark, UpdateAndDrop, UpdateFails, WritePod,
       DropCopy, Release, Step, FreshInv, ServedInv, Holds, Pod
  <2>6. CASE UmountDelete(w)
    BY <1>0, <1>2, <2>6 DEF UmountDelete, DeletePod, WritePod, Terminating,
       Release, NoRequest, HandlerInv, ServedInv, Holds, Pod
  <2>7. CASE WaitUtilPodReady(w)
    BY <1>0, <1>2, <2>7 DEF WaitUtilPodReady, Step, NoRequest, ServedInv,
       Holds
  <2>8. CASE PubSecret(w)
    BY <1>0, <1>2, <2>8 DEF PubSecret, Step, Release, ServedInv, Holds
  <2>9. QED
    BY <1>0, <1>2, <2>1, <2>2, <2>3, <2>4, <2>5, <2>6, <2>7, <2>8
       DEF Handler, HandlerStep, JMount, JUmount, PubLock, PubGet, PubGiveUp,
           WaitReadyExpires, UmountLock, UmountGet, UmountRefGet,
           UmountNewGet, UmountDelGet, WorkerApiError, LocalError, NoRequest,
           GetPod, DropCopy, Acquire, Step, Release, ServedInv, Holds
<1>3. QED
  BY <1>0, <1>1, <1>2 DEF ServedInv

(* Calls, answers and lost answers of the kubelet keep it served.          *)
LEMMA ServedKubelet ==
    ASSUME IInv, ServedInv, Kubelet
    PROVE  ServedInv'
<1> USE ThreadAssumption DEF IInv, TypeOK, ApiTypes, ThreadTypes,
        KubeletTypes, Threads, Goto, KnownInv, Known
<1>1. ASSUME NEW t \in Targets,
             AppStart(t) \/ AppDelete(t) \/ AppGone(t)
      PROVE  ServedInv'
  <2>1. /\ UNCHANGED <<api, pc, tgt, vol>>
        /\ \E s \in {"running", "deleting", "gone"} :
              /\ app' = [app EXCEPT ![t] = s]
              /\ s = "running" => app[t] = "none"
              /\ s = "deleting" => app[t] = "running"
              /\ s = "gone" => app[t] = "deleting"
    BY <1>1 DEF AppStart, AppDelete, AppGone, SetApp, apiVars, mountVars
  <2>2. app[t] = "none" => ~Holds(t)
    BY DEF Holds, ServedInv
  <2>3. QED
    BY <2>1, <2>2 DEF ServedInv, Holds
<1>2. ASSUME NEW t \in Targets, CallTimeout(t)
      PROVE  ServedInv'
  BY <1>2 DEF CallTimeout, mountVars, ServedInv, Holds
<1>3. ASSUME NEW t \in Targets, NEW w \in Workers,
             NodePublishVolume(t, w) \/ NodeUnpublishVolume(t, w)
      PROVE  ServedInv'
  BY <1>3 DEF NodePublishVolume, NodeUnpublishVolume, StartCall, ServedInv,
     Holds, UnpublishLabels
<1>4. ASSUME NEW w \in Workers, Collect(w)
      PROVE  ServedInv'
  BY <1>4 DEF Collect, VolumeAfter, ServedInv, Holds, UnpublishLabels
<1>5. QED
  BY <1>1, <1>2, <1>3, <1>4 DEF Kubelet

(* So does what happens to the mount pod, unless a user deletes it.        *)
LEMMA ServedCluster ==
    ASSUME IInv, ServedInv, Cluster, "userDelete" \notin Faults
    PROVE  ServedInv'
<1> USE ThreadAssumption DEF IInv, TypeOK, ApiTypes, ThreadTypes,
        KubeletTypes, Threads
<1>1. CASE Crash \/ Panic
  BY <1>1 DEF Crash, Panic, Restart, ServedInv, Holds, UnpublishLabels
<1>2. CASE Tick
  BY <1>2 DEF Tick, mountVars, kubeletVars, ServedInv, Holds
<1>3. CASE PodReady \/ PodStops \/ PodRestarts \/ PodFails \/ PodRejected
  BY <1>3 DEF PodReady, PodStops, PodRestarts, PodFails, PodRejected,
     WritePod, ClusterFrame, mountVars, kubeletVars, ServedInv, Holds, Pod
<1>4. CASE PodDisappears
  BY <1>4 DEF PodDisappears, ClusterFrame, mountVars, kubeletVars,
     ServedInv, Holds
<1>5. CASE SecretCollected
  BY <1>5 DEF SecretCollected, ClusterFrame, mountVars, kubeletVars,
     ServedInv, Holds
<1>6. QED
  BY <1>1, <1>2, <1>3, <1>4, <1>5 DEF Cluster, UserDeletesPod, OneShot

(* Without the reconciler, and unless a user deletes the mount pod, the    *)
(* volume of a running application pod is always referenced by a mount pod *)
(* nobody is deleting, whatever else fails.                                *)
THEOREM MountedIsReferencedHolds ==
    ASSUME ~Manager, "userDelete" \notin Faults
    PROVE  Spec => []MountedIsReferenced
<1>1. Init => ServedInv
  BY DEF Init, ServedInv, Holds, Threads, UnpublishLabels
<1>2. IInv /\ ServedInv /\ [Next]_vars => ServedInv'
  <2>1. ASSUME IInv, ServedInv, UNCHANGED vars PROVE ServedInv'
    BY <2>1 DEF vars, apiVars, mountVars, kubeletVars, ServedInv, Holds
  <2>2. QED
    BY <2>1, ServedHandler, ServedKubelet, ServedCluster DEF Next, Reconciler
<1>3. ServedInv => MountedIsReferenced
  BY DEF ServedInv, Holds, MountedIsReferenced
<1>4. QED
  BY <1>1, <1>2, <1>3, Invariance, PTL DEF Spec

-----------------------------------------------------------------------------
(***************************************************************************)
(* The mount pod implements RefCount, for any sets of targets and threads: *)
(* without the reconciler, and unless a user deletes the pod, every step   *)
(* of the handlers, the kubelet and the cluster is a step of the abstract  *)
(* resource or leaves it alone.                                            *)
(***************************************************************************)
(* A handler about to set the deadline has read a pod that lingers and has *)
(* no deadline.                                                            *)
MarkInv ==
    \A w \in Workers :
        pc[w] = "u_delayUpd" => HasDelay /\ view[w].delayAt = 0

(* What the abstract resource sees. *)
Seen == <<IsUp, Registered, Deadline, now, Served>>

(* A step after which everything looks as before is a stutter. *)
LEMMA SeenStutters ==
    ASSUME UNCHANGED Seen
    PROVE  [Shared!Next]_(Shared!rcVars)
BY DEF Seen, Shared!rcVars

(* A step that changes neither the pod, the clock nor what the kubelet     *)
(* knows is not seen.                                                      *)
LEMMA FrameUnseen ==
    ASSUME UNCHANGED <<api, now, app, vol>>
    PROVE  UNCHANGED Seen
BY DEF Seen, IsUp, Registered, Deadline, Served

(* Only deleteMountPod moves to the Update of the deadline, with the copy  *)
(* ShouldDelay has looked at.                                              *)
LEMMA MarkPreserved ==
    ASSUME IInv, MarkInv, [Next]_vars, ~Manager
    PROVE  MarkInv'
<1> USE ThreadAssumption DEF IInv, TypeOK, ApiTypes, ThreadTypes, Threads,
        Goto
<1>1. ASSUME NEW w \in Workers, Handler(w)
      PROVE  MarkInv'
  <2>1. CASE UmountDelGet(w)
    BY <2>1 DEF UmountDelGet, GetPod, NoRequest, Step, Release, ShouldDelay,
       MarkInv
  <2>2. CASE ~UmountDelGet(w)
    <3>1. pc'[w] # "u_delayUpd"
      BY <1>1, <2>2 DEF Handler, HandlerStep, JMount, JUmount, PubLock,
         PubGet, PubGiveUp, PubCreate, PubSecret, AddRefGet, AddRefUpdate,
         WaitUtilPodReady, WaitReadyExpires, UmountLock, UmountGet,
         UmountRefGet, UmountRefUpdate, UmountNewGet, UmountMark,
         UmountDelete, WorkerApiError, LocalError, UpdateFails, Acquire,
         Step, Release
    <3>2. \A x \in Workers \ {w} : pc'[x] = pc[x] /\ view'[x] = view[x]
      BY <1>1 DEF Handler, HandlerStep, JMount, JUmount, PubLock,
         PubGet, PubGiveUp, PubCreate, PubSecret, AddRefGet, AddRefUpdate,
         WaitUtilPodReady, WaitReadyExpires, UmountLock, UmountGet,
         UmountRefGet, UmountRefUpdate, UmountNewGet, UmountDelGet,
         UmountMark, UmountDelete, WorkerApiError, LocalError, UpdateFails,
         UpdateAndDrop, DropCopy, GetPod, NoRequest, Acquire, Step, Release
    <3>3. QED
      BY <3>1, <3>2 DEF MarkInv
  <2>3. QED
    BY <2>1, <2>2
<1>2. CASE Kubelet
  BY <1>2 DEF Kubelet, AppStart, AppDelete, AppGone, SetApp, CallTimeout,
     NodePublishVolume, NodeUnpublishVolume, StartCall, Collect, apiVars,
     MarkInv
<1>3. CASE Cluster
  BY <1>3 DEF Cluster, PodReady, PodStops, PodDisappears, PodRestarts,
     PodFails, PodRejected, UserDeletesPod, Tick, Crash, Panic, Restart,
     SecretCollected, ClusterFrame, MarkInv
<1>4. CASE UNCHANGED vars
  BY <1>4 DEF vars, apiVars, MarkInv
<1>5. QED
  BY <1>1, <1>2, <1>3, <1>4 DEF Next, Reconciler

-----------------------------------------------------------------------------
(* The requests of JMount and JUmount as steps of the resource. *)

(* createOrAddRef for a new pod: the first user joins. *)
LEMMA CreateJoins ==
    ASSUME IInv, NEW w \in Workers, PubCreate(w),
           UNCHANGED <<now, app, vol>>
    PROVE  [Shared!Next]_(Shared!rcVars)
<1>1. api.phase = "absent" /\ tgt[w] \in Targets
  BY DEF PubCreate, IInv, HandlerInv, KnownInv, Known
<1>2. api' = NewMountPod({tgt[w]})
  BY <1>1 DEF PubCreate, WritePod
<1>3. ~IsUp /\ IsUp' /\ Registered = {} /\ Registered' = {tgt[w]}
      /\ Deadline' = 0
  BY <1>1, <1>2 DEF IsUp, Registered, Deadline, NewMountPod
<1>4. Served' = Served
  BY DEF Served
<1>5. Shared!Join(tgt[w])
  BY <1>3, <1>4 DEF Shared!Join
<1>6. QED
  BY <1>1, <1>5 DEF Shared!Next

(* AddRefOfMount: another user joins and the deadline goes, or the Update  *)
(* fails.                                                                  *)
LEMMA AddRefJoins ==
    ASSUME IInv, NEW w \in Workers, AddRefUpdate(w),
           UNCHANGED <<now, app, vol>>
    PROVE  [Shared!Next]_(Shared!rcVars)
<1> USE DEF IInv, TypeOK, ApiTypes
<1>1. CASE w \notin fresh
  BY <1>1, FrameUnseen, SeenStutters DEF AddRefUpdate, UpdateAndDrop,
     UpdateFails, DropCopy
<1>2. CASE w \in fresh
  <2>1. view[w] = api /\ api.phase = "live" /\ tgt[w] \in Targets
    BY <1>2 DEF AddRefUpdate, FreshInv, HandlerInv, KnownInv, Known
  <2>2. api' = [api EXCEPT !.refs = @ \cup {tgt[w]}, !.delayAt = 0]
    BY <1>2, <2>1 DEF AddRefUpdate, UpdateAndDrop, UpdateFails, WritePod
  <2>3. IsUp /\ IsUp' /\ Registered' = Registered \cup {tgt[w]}
        /\ Deadline' = 0
    BY <2>1, <2>2 DEF IsUp, Registered, Deadline, Pod
  <2>4. Served' = Served
    BY DEF Served
  <2>5. Shared!Join(tgt[w])
    BY <2>3, <2>4 DEF Shared!Join
  <2>6. QED
    BY <2>1, <2>5 DEF Shared!Next
<1>3. QED
  BY <1>1, <1>2

(* JUmount drops the reference of an application pod that is being         *)
(* deleted: a user who is not served any more leaves.                      *)
LEMMA DropRefLeaves ==
    ASSUME IInv, ServedInv, NEW w \in Workers, UmountRefUpdate(w),
           UNCHANGED <<now, app, vol>>
    PROVE  [Shared!Next]_(Shared!rcVars)
<1> USE DEF IInv, TypeOK, ApiTypes
<1>1. CASE w \notin fresh
  BY <1>1, FrameUnseen, SeenStutters DEF UmountRefUpdate, UpdateAndDrop,
     UpdateFails, DropCopy
<1>2. CASE w \in fresh
  <2>1. view[w] = api /\ tgt[w] \in Targets /\ tgt[w] \notin Served
    BY <1>2 DEF UmountRefUpdate, FreshInv, KnownInv, Known, ServedInv,
       UnpublishLabels, Served
  <2>2. api' = [api EXCEPT !.refs = @ \ {tgt[w]}]
    BY <1>2, <2>1 DEF UmountRefUpdate, UpdateAndDrop, UpdateFails, WritePod
  <2>3. IsUp' = IsUp /\ Registered' = Registered \ {tgt[w]}
        /\ Deadline' = Deadline
    BY <2>1, <2>2 DEF IsUp, Registered, Deadline, Pod
  <2>4. Served' = Served
    BY DEF Served
  <2>5. CASE tgt[w] \in Registered
    <3>1. Shared!Leave(tgt[w])
      BY <2>1, <2>3, <2>4, <2>5 DEF Shared!Leave
    <3>2. QED
      BY <2>1, <3>1 DEF Shared!Next
  <2>6. CASE tgt[w] \notin Registered
    BY <2>3, <2>4, <2>6, SeenStutters DEF Seen
  <2>7. QED
    BY <2>5, <2>6
<1>3. QED
  BY <1>1, <1>2

(* The Update of deleteMountPod sets the deadline of an unused pod. *)
LEMMA MarkSetsDeadline ==
    ASSUME IInv, MarkInv, NEW w \in Workers, UmountMark(w),
           UNCHANGED <<now, app, vol>>
    PROVE  [Shared!Next]_(Shared!rcVars)
<1> USE DEF IInv, TypeOK, ApiTypes
<1>1. CASE w \notin fresh
  BY <1>1, FrameUnseen, SeenStutters DEF UmountMark, UpdateAndDrop,
     UpdateFails, DropCopy
<1>2. CASE w \in fresh
  <2>1. view[w] = api /\ HasDelay /\ api.delayAt = 0 /\ api.refs = {}
    BY <1>2 DEF UmountMark, FreshInv, MarkInv, HandlerInv
  <2>2. api' = [api EXCEPT !.delayAt = now + 1]
    BY <1>2, <2>1 DEF UmountMark, UpdateAndDrop, UpdateFails, WritePod,
       TimeAfterDelay
  <2>3. Served' = Served
    BY DEF Served
  <2>4. CASE IsUp
    <3>1. IsUp' /\ Registered = {} /\ Registered' = {} /\ Deadline = 0
          /\ Deadline' = now + 1
      BY <2>1, <2>2, <2>4 DEF IsUp, Registered, Deadline, Pod
    <3>2. Shared!SetDeadline
      BY <2>1, <2>3, <2>4, <3>1 DEF Shared!SetDeadline
    <3>3. QED
      BY <3>2 DEF Shared!Next
  <2>5. CASE ~IsUp
    BY <2>2, <2>3, <2>5, SeenStutters DEF Seen, IsUp, Registered, Deadline,
       Pod
  <2>6. QED
    BY <2>4, <2>5
<1>3. QED
  BY <1>1, <1>2

(* The DeletePod of JUmount ends the resource, unused and past its         *)
(* deadline.                                                               *)
LEMMA DeleteEnds ==
    ASSUME IInv, NEW w \in Workers, UmountDelete(w),
           UNCHANGED <<now, app, vol>>
    PROVE  [Shared!Next]_(Shared!rcVars)
<1> USE DEF IInv, TypeOK, ApiTypes
<1>1. CASE ~IsUp
  BY <1>1, FrameUnseen, SeenStutters DEF UmountDelete, DeletePod, NoRequest,
     IsUp
<1>2. CASE IsUp
  <2>1. /\ api.refs = {}
        /\ HasDelay => api.delayAt > 0 /\ api.delayAt <= now
    BY <1>2 DEF UmountDelete, HandlerInv, IsUp
  <2>2. api' = Terminating(api)
    BY <1>2 DEF UmountDelete, DeletePod, WritePod, NoRequest, IsUp
  <2>3. Served' = Served
    BY DEF Served
  <2>4. /\ ~IsUp' /\ Registered = {} /\ Registered' = {}
        /\ Deadline = api.delayAt /\ Deadline' = 0
    BY <1>2, <2>1, <2>2 DEF IsUp, Registered, Deadline, Terminating, Pod
  <2>5. Shared!End
    BY <1>2, <2>1, <2>3, <2>4 DEF Shared!End
  <2>6. QED
    BY <2>5 DEF Shared!Next
<1>3. QED
  BY <1>1, <1>2

(* Every other step of a handler leaves the pod as it is. *)
LEMMA HandlerRefines ==
    ASSUME IInv, ServedInv, MarkInv, NEW w \in Workers, Handler(w)
    PROVE  [Shared!Next]_(Shared!rcVars)
<1>0. UNCHANGED <<now, app, vol>>
  BY DEF Handler, HandlerStep, kubeletVars
<1>1. CASE \/ PubCreate(w) \/ AddRefUpdate(w) \/ UmountRefUpdate(w)
           \/ UmountMark(w) \/ UmountDelete(w)
  BY <1>0, <1>1, CreateJoins, AddRefJoins, DropRefLeaves, MarkSetsDeadline,
     DeleteEnds
<1>2. CASE ~ (\/ PubCreate(w) \/ AddRefUpdate(w) \/ UmountRefUpdate(w)
              \/ UmountMark(w) \/ UmountDelete(w))
  <2>1. UNCHANGED api
    BY <1>2 DEF Handler, HandlerStep, JMount, JUmount, PubLock, PubGet,
       PubGiveUp, PubSecret, AddRefGet, WaitUtilPodReady, WaitReadyExpires,
       UmountLock, UmountGet, UmountRefGet, UmountNewGet, UmountDelGet,
       WorkerApiError, LocalError, NoRequest, GetPod, DropCopy
  <2>2. QED
    BY <1>0, <2>1, FrameUnseen, SeenStutters
<1>3. QED
  BY <1>1, <1>2

-----------------------------------------------------------------------------
(* The kubelet reports a volume that is mounted and releases it when the   *)
(* application pod is deleted.                                             *)
LEMMA KubeletRefines ==
    ASSUME IInv, ServedInv, Kubelet
    PROVE  [Shared!Next]_(Shared!rcVars)
<1> USE DEF IInv, TypeOK, ApiTypes, ThreadTypes, KubeletTypes
<1>0. UNCHANGED <<IsUp, Registered, Deadline, now>>
  BY DEF Kubelet, AppStart, AppDelete, AppGone, SetApp, CallTimeout,
     NodePublishVolume, NodeUnpublishVolume, StartCall, Collect, apiVars,
     IsUp, Registered, Deadline
<1>1. ASSUME NEW t \in Targets, Served' = Served \ {t}
      PROVE  [Shared!Next]_(Shared!rcVars)
  <2>1. Shared!Release(t)
    BY <1>0, <1>1 DEF Shared!Release
  <2>2. QED
    BY <2>1 DEF Shared!Next
<1>2. CASE Served' = Served
  BY <1>0, <1>2, SeenStutters DEF Seen
<1>3. ASSUME NEW t \in Targets, AppStart(t) \/ AppDelete(t) \/ AppGone(t)
      PROVE  Served' = Served \/ Served' = Served \ {t}
  BY <1>3 DEF AppStart, AppDelete, AppGone, SetApp, Served, ServedInv
<1>4. ASSUME NEW t \in Targets, CallTimeout(t)
      PROVE  Served' = Served
  BY <1>4 DEF CallTimeout, Served
<1>5. ASSUME NEW t \in Targets, NEW w \in Workers,
             NodePublishVolume(t, w) \/ NodeUnpublishVolume(t, w)
      PROVE  Served' = Served
  BY <1>5 DEF NodePublishVolume, NodeUnpublishVolume, StartCall, Served
<1>6. ASSUME NEW w \in Workers, Collect(w)
      PROVE  [Shared!Next]_(Shared!rcVars)
  <2> DEFINE t == tgt[w]
  <2>1. t \in Targets
    BY <1>6 DEF Collect, KnownInv, Known
  <2>2. CASE call[t] = w /\ pc[w] = "p_ok" /\ app[t] = "running"
    <3>1. api.phase = "live" /\ t \in api.refs
      BY <2>1, <2>2 DEF ServedInv, Holds
    <3>2. Served' = Served \cup {t}
      BY <1>6, <2>1, <2>2 DEF Collect, VolumeAfter, Served
    <3>3. Shared!Report(t)
      BY <1>0, <3>1, <3>2 DEF Shared!Report, IsUp, Registered
    <3>4. QED
      BY <2>1, <3>3 DEF Shared!Next
  <2>3. CASE ~(call[t] = w /\ pc[w] = "p_ok" /\ app[t] = "running")
    <3>1. Served' = Served \/ Served' = Served \ {t}
      BY <1>6, <2>1, <2>3 DEF Collect, VolumeAfter, Served
    <3>2. QED
      BY <1>1, <1>2, <2>1, <3>1
  <2>4. QED
    BY <2>2, <2>3
<1>7. QED
  BY <1>1, <1>2, <1>3, <1>4, <1>5, <1>6 DEF Kubelet

(* What happens to the pod in the cluster is not seen, but for the clock,  *)
(* unless a user deletes it.                                               *)
LEMMA ClusterRefines ==
    ASSUME IInv, ServedInv, Cluster, "userDelete" \notin Faults
    PROVE  [Shared!Next]_(Shared!rcVars)
<1> USE DEF IInv, TypeOK, ApiTypes, KubeletTypes, kubeletVars
<1>1. CASE Tick
  <2>1. UNCHANGED <<IsUp, Registered, Deadline, Served>>
    BY <1>1 DEF Tick, IsUp, Registered, Deadline, Served
  <2>2. Shared!Advance
    BY <1>1, <2>1 DEF Tick, Shared!Advance
  <2>3. QED
    BY <2>2 DEF Shared!Next
<1>2. CASE Crash \/ Panic
  BY <1>2, SeenStutters DEF Crash, Panic, Restart, Seen, IsUp, Registered,
     Deadline, Served
<1>3. CASE PodReady \/ PodStops \/ PodRestarts \/ PodFails \/ PodRejected
  BY <1>3, SeenStutters DEF PodReady, PodStops, PodRestarts, PodFails,
     PodRejected, WritePod, ClusterFrame, Seen, IsUp, Registered, Deadline,
     Served, Pod
<1>4. CASE PodDisappears
  BY <1>4, SeenStutters DEF PodDisappears, Absent, ClusterFrame, Seen, IsUp,
     Registered, Deadline, Served
<1>5. CASE SecretCollected
  BY <1>5, FrameUnseen, SeenStutters DEF SecretCollected, ClusterFrame
<1>6. QED
  BY <1>1, <1>2, <1>3, <1>4, <1>5 DEF Cluster, UserDeletesPod, OneShot

-----------------------------------------------------------------------------
(* Without the reconciler, and unless a user deletes the mount pod, JMount *)
(* and JUmount implement the shared resource of RefCount, for any number   *)
(* of application pods, handler threads, restarts and other faults.        *)
THEOREM RefinesRefCount ==
    ASSUME ~Manager, "userDelete" \notin Faults
    PROVE  Spec => ImplementsRefCount
<1>1. Init => Shared!Init
  BY DEF Init, Shared!Init, Absent, IsUp, Registered, Deadline, Served
<1>2. Init => ServedInv /\ MarkInv
  BY DEF Init, ServedInv, MarkInv, Holds, Threads, UnpublishLabels
<1>3. ASSUME IInv, ServedInv, [Next]_vars
      PROVE  ServedInv'
  <2>1. CASE UNCHANGED vars
    BY <1>3, <2>1 DEF vars, apiVars, mountVars, kubeletVars, ServedInv, Holds
  <2>2. QED
    BY <1>3, <2>1, ServedHandler, ServedKubelet, ServedCluster
       DEF Next, Reconciler
<1>4. IInv /\ MarkInv /\ [Next]_vars => MarkInv'
  BY MarkPreserved
<1>5. ASSUME IInv, ServedInv, MarkInv, [Next]_vars
      PROVE  [Shared!Next]_(Shared!rcVars)
  <2>1. CASE UNCHANGED vars
    BY <2>1, FrameUnseen, SeenStutters DEF vars, apiVars, kubeletVars
  <2>2. QED
    BY <1>5, <2>1, HandlerRefines, KubeletRefines, ClusterRefines
       DEF Next, Reconciler
<1>6. QED
  BY <1>1, <1>2, <1>3, <1>4, <1>5, Invariance, PTL
     DEF Spec, ImplementsRefCount, Shared!Spec

=============================================================================
