------------------------------ MODULE Recovery ------------------------------
(***************************************************************************)
(* Bind mounts of one node: NodePublishVolume and NodeUnpublishVolume make *)
(* and remove them, the reconciler's podReadyHandler makes them again when *)
(* the JuiceFS client they belong to was replaced, and podDeletedHandler   *)
(* cleans or recreates what a deleted mount pod leaves behind.             *)
(*                                                                         *)
(* The mount pod is reduced to what matters to its mounts.  createOrAddRef *)
(* and JUmount are one step each here: their requests, conflicts, failures *)
(* and the delete delay are the subject of the module MountPod.  Nor does  *)
(* a thread keep a version of the pod: checkAnnotations reads the pod      *)
(* again when its copy is outdated, so that it ends up writing the latest. *)
(***************************************************************************)
EXTENDS MountTable, FiniteSets

CONSTANTS
    Workers,     \* gRPC handler threads of the node plugin
    Nobody,      \* no thread, no volume, no pod
    Faults,      \* the fault classes the environment may exercise
    MaxFaults    \* bound on the number of one-shot faults

ASSUME RecoveryAssumption ==
    /\ Nobody \notin Workers \cup Vols \cup Apps
    /\ Faults \subseteq {"clientCrash", "userDelete", "callTimeout", "busy",
                         "hang", "pluginCrash", "removeDir"}
    /\ MaxFaults \in Nat

VARIABLES
    pod,      \* pod[v]: the mount pod of volume v
    app,      \* app[a]: the life of application pod a
    vstate,   \* vstate[u]: what kubelet knows of the volume of use u
    asked,    \* asked[u]: the call whose answer kubelet waits for
    call,     \* call[w]: the call thread w serves
    rec,      \* the reconciler's round
    hanging,  \* volumes whose CleanupMountPoint outlived doWithinTime
    faults    \* one-shot faults so far

vars == <<tableVars, pod, app, vstate, asked, call, rec, hanging, faults>>

(* ready is the Ready condition kubelet reports; up: the client runs. *)
Pod == [phase : {"absent", "live", "terminating"}, refs : SUBSET Apps,
        fin : BOOLEAN, up : BOOLEAN, ready : BOOLEAN]

Absent == [phase |-> "absent", refs |-> {}, fin |-> FALSE, up |-> FALSE,
           ready |-> FALSE]

NewPod(refs) == [Absent EXCEPT !.phase = "live", !.refs = refs, !.fin = TRUE]

IdleCall == [pc |-> "idle", app |-> Nobody, vol |-> Nobody]

CallLabels == {"p_mkdir", "p_ref", "p_wait", "p_vol", "p_bind",
               "u_loop", "u_clean", "u_ref"}

(* an item of recoverTarget: how often the path is unmounted, and whether  *)
(* it is bound again                                                       *)
Item == [path : Paths, pops : Nat, bind : BOOLEAN]

(* apps, pods: the pod list of the round; mis: the mount table parsed      *)
(* after it; todo: the mount pods not run yet; vol, targets, items: where  *)
(* the handler is                                                          *)
IdleRec == [pc |-> "idle", apps |-> <<>>, pods |-> <<>>, mis |-> <<>>,
            todo |-> {}, vol |-> Nobody, targets |-> {}, items |-> {}]

Init ==
    /\ MountTableInit
    /\ pod = [v \in Vols |-> Absent]
    /\ app = [a \in Apps |-> "absent"]
    /\ vstate = [u \in Uses |-> "none"]
    /\ asked = [u \in Uses |-> Nobody]
    /\ call = [w \in Workers |-> IdleCall]
    /\ rec = IdleRec
    /\ hanging = {}
    /\ faults = 0

OneShot(class) ==
    /\ class \in Faults
    /\ faults < MaxFaults
    /\ faults' = faults + 1

UsesOf(a) == {u \in Uses : u[1] = a}

-----------------------------------------------------------------------------
(* Calls: the worker w serves a call for the use <<a, v>>. *)

PathOf(w) == Target(call[w].app, call[w].vol)

Goto(w, label) == call' = [call EXCEPT ![w].pc = label]

Continue(w, label) ==
    /\ Goto(w, label)
    /\ UNCHANGED <<app, vstate, asked, rec, hanging, faults>>

(* The call returns.  Its answer reaches kubelet if kubelet waits for it.  *)
Return(w, answer) ==
    /\ call' = [call EXCEPT ![w] = IdleCall]
    /\ LET u == <<call[w].app, call[w].vol>>
       IN  IF asked[u] = w
           THEN /\ asked' = [asked EXCEPT ![u] = Nobody]
                /\ vstate' = [vstate EXCEPT ![u] = answer]
           ELSE UNCHANGED <<asked, vstate>>
    /\ UNCHANGED <<app, rec, hanging, faults>>

(* The handlers of the node plugin and the reconciler share the mutex of   *)
(* the pod's name; the reconciler holds it while it waits for the pod.     *)
Locked(v) == rec.pc = "wait" /\ rec.vol = v

-----------------------------------------------------------------------------
(* NodePublishVolume *)

(* mutant: the directory of the target is expected to exist *)
PublishMkdir_Skip(w) ==
    /\ call[w].pc = "p_mkdir"
    /\ Continue(w, "p_ref")
    /\ UNCHANGED <<tableVars, pod>>

(* MkdirAll fails on a path that stat cannot read. *)
PublishMkdir(w) ==
    /\ call[w].pc = "p_mkdir"
    /\ IF mounts[PathOf(w)] # <<>> /\ Stat(PathOf(w)) # "ok"
       THEN Return(w, "uncertain") /\ UNCHANGED dirs
       ELSE Continue(w, "p_ref") /\ dirs' = dirs \cup {PathOf(w)}
    /\ UNCHANGED <<mounts, src, subdirs, pod>>

(* createOrAddRef, which waits for a pod that is being deleted to be gone *)
JMount(w) ==
    LET v == call[w].vol
        a == call[w].app
        refs == pod[v].refs \cup {a}
    IN  /\ call[w].pc = "p_ref"
        /\ ~Locked(v)
        /\ pod[v].phase # "terminating"
        /\ pod' = [pod EXCEPT ![v] =
                     IF pod[v].phase = "absent" THEN NewPod({a})
                     ELSE [pod[v] EXCEPT !.refs = refs]]
        /\ Continue(w, "p_wait")
        /\ UNCHANGED tableVars

(* waitUtilMountReady looks at the Ready condition, and gives up when the  *)
(* pod is gone or, after a minute, not ready yet.                          *)
WaitReady(w) ==
    LET p == pod[call[w].vol]
    IN  /\ call[w].pc = "p_wait"
        /\ \/ p.ready /\ Continue(w, "p_vol")
           \/ ~p.ready /\ Return(w, "uncertain")
        /\ UNCHANGED <<tableVars, pod>>

(* CreateVol: PathExists reports a corrupt mount as an error; MkdirAll     *)
(* makes what is missing, the source path included.                        *)
CreateVol(w) ==
    LET v == call[w].vol
    IN  /\ call[w].pc = "p_vol"
        /\ IF src[v] = "dead"
           THEN Return(w, "uncertain") /\ UNCHANGED src
           ELSE /\ Continue(w, "p_bind")
                /\ src' = [src EXCEPT ![v] = IF @ = "none" THEN "dir" ELSE @]
        /\ UNCHANGED <<mounts, dirs, subdirs, pod>>

(* the bind mount; when it fails, os.Remove(target) *)
PublishBind(w) ==
    LET p == PathOf(w)
        v == call[w].vol
    IN  /\ call[w].pc = "p_bind"
        /\ \/ /\ \E st \in Shown(v) : BindMount(p, v, st)
              /\ Return(w, "published")
           \/ /\ MountFails(p, v)
              /\ dirs' = IF mounts[p] = <<>> THEN dirs \ {p} ELSE dirs
              /\ UNCHANGED <<mounts, src, subdirs>>
              /\ Return(w, "uncertain")
        /\ UNCHANGED pod

-----------------------------------------------------------------------------
(* NodeUnpublishVolume, JfsUnmount *)

(* umount until it's not mounted; a busy target is unmounted lazily, which *)
(* ends the loop                                                           *)
UmountLoop(w) ==
    /\ call[w].pc = "u_loop"
    /\ Umount(PathOf(w))
    /\ \/ mounts[PathOf(w)] # <<>> /\ Continue(w, "u_loop")
       \/ mounts[PathOf(w)] = <<>> /\ Continue(w, "u_clean")
       \/ /\ mounts[PathOf(w)] # <<>>
          /\ OneShot("busy")
          /\ Goto(w, "u_clean")
          /\ UNCHANGED <<app, vstate, asked, rec, hanging>>
    /\ UNCHANGED pod

(* mutant: a failure to clean the target is only logged *)
CleanTarget_Ignore(w) ==
    /\ call[w].pc = "u_clean"
    /\ CleanupMountPoint(PathOf(w))
    /\ Continue(w, "u_ref")
    /\ UNCHANGED pod

(* mutant: a target that is not there cannot be cleaned *)
CleanTarget_Missing(w) ==
    /\ call[w].pc = "u_clean"
    /\ CleanupMountPoint(PathOf(w))
    /\ IF CleanupFails(PathOf(w)) \/ PathOf(w) \notin dirs
       THEN Return(w, "uncertain") ELSE Continue(w, "u_ref")
    /\ UNCHANGED pod

CleanTarget(w) ==
    /\ call[w].pc = "u_clean"
    /\ CleanupMountPoint(PathOf(w))
    /\ IF CleanupFails(PathOf(w)) THEN Return(w, "uncertain")
                                  ELSE Continue(w, "u_ref")
    /\ UNCHANGED pod

(* JUmount: the reference is removed, and the pod deleted with the last *)
JUmount(w) ==
    LET v == call[w].vol
        a == call[w].app
        refs == pod[v].refs \ {a}
        phase == IF refs = {} THEN "terminating" ELSE pod[v].phase
    IN  /\ call[w].pc = "u_ref"
        /\ ~Locked(v)
        /\ pod' = [pod EXCEPT ![v] =
                     IF pod[v].phase = "absent" THEN pod[v]
                     ELSE [pod[v] EXCEPT !.refs = refs, !.phase = phase]]
        /\ Return(w, "unpublished")
        /\ UNCHANGED tableVars

-----------------------------------------------------------------------------
(* doReconcile: the pod list, then the mount table *)

RecContinue(r) ==
    /\ rec' = r
    /\ UNCHANGED <<app, vstate, asked, call, hanging, faults>>

(* the handler of rec.vol returns *)
Done == [rec EXCEPT !.pc = "next", !.vol = Nobody, !.targets = {},
                    !.items = {}]

RecList ==
    /\ rec.pc = "idle"
    /\ RecContinue([rec EXCEPT !.pc = "parse", !.apps = app, !.pods = pod])
    /\ UNCHANGED <<tableVars, pod>>

(* What resolveTargetItem finds in the table: how many mounts a path has,  *)
(* and whether they show different directories.                            *)
RecParse ==
    /\ rec.pc = "parse"
    /\ RecContinue([rec EXCEPT
          !.pc = "next",
          !.todo = {v \in Vols : rec.pods[v].phase # "absent"},
          !.mis = [p \in Paths |->
                     [count |-> Len(mounts[p]),
                      inconsistent |-> \E i, j \in DOMAIN mounts[p] :
                         /\ mounts[p][i].st = "local"
                         /\ mounts[p][j].st # "local"]]])
    /\ UNCHANGED <<tableVars, pod>>

RecEnd ==
    /\ rec.pc = "next"
    /\ rec.todo = {}
    /\ RecContinue(IdleRec)
    /\ UNCHANGED <<tableVars, pod>>

-----------------------------------------------------------------------------
(* Run *)

Alive == {a \in Apps : rec.apps[a] \in {"starting", "running"}}

(* checkAnnotations and the dispatch on the status of the copy: references *)
(* of pods that are gone or being deleted are removed, and a pod without   *)
(* references is deleted.                                                  *)
RecRun(v) ==
    LET kept == rec.pods[v].refs \subseteq Alive
        cur == IF kept THEN rec.pods[v]
               ELSE [pod[v] EXCEPT !.refs = @ \cap Alive]
        unused == cur.refs = {} /\ cur.phase = "live"
        found == pod[v].phase # "absent"
        written == IF kept THEN pod[v] ELSE cur
        phase == IF unused /\ found THEN "terminating" ELSE written.phase
        r == [rec EXCEPT !.todo = @ \ {v}, !.pods[v] = Absent]
    IN  /\ rec.pc = "next"
        /\ v \in rec.todo
        /\ pod' = [pod EXCEPT ![v] = [written EXCEPT !.phase = phase]]
        /\ RecContinue(
             IF (~kept \/ unused) /\ ~found THEN r
             ELSE IF cur.phase = "terminating"
             THEN [r EXCEPT !.pc = "deleted", !.vol = v]
             ELSE IF cur.ready
             THEN [r EXCEPT !.pc = "ready", !.vol = v, !.targets = cur.refs]
             ELSE r)
        /\ UNCHANGED tableVars

(* The pod is read again.  One that is being deleted loses its finalizer;  *)
(* then what it leaves is cleaned, or the pod is created again.            *)
PodDeletedHandler ==
    LET v == rec.vol
        p == pod[v]
    IN  /\ rec.pc = "deleted"
        /\ \/ /\ p.phase = "terminating" /\ p.fin
              /\ pod' = [pod EXCEPT ![v].fin = FALSE]
              /\ RecContinue([rec EXCEPT
                    !.pc = IF p.refs = {} THEN "clean" ELSE "lock",
                    !.targets = p.refs])
           \/ /\ p.phase = "live" /\ p.ready
              /\ RecContinue([rec EXCEPT !.pc = "ready", !.targets = p.refs])
              /\ UNCHANGED pod
           \/ /\ ~(p.phase = "terminating" /\ p.fin)
              /\ ~(p.phase = "live" /\ p.ready)
              /\ RecContinue(Done)
              /\ UNCHANGED pod
        /\ UNCHANGED tableVars

(* CleanupMountPoint of the source path: a mount is taken off, and the     *)
(* directory removed                                                       *)
CleanSource(v) ==
    /\ src' = [src EXCEPT ![v] = "none"]
    /\ UNCHANGED <<mounts, dirs, subdirs>>

(* doWithinTime returns after a second; the clean up may go on. *)
RecClean ==
    /\ rec.pc = "clean"
    /\ \/ CleanSource(rec.vol) /\ RecContinue(Done)
       \/ /\ OneShot("hang")
          /\ hanging' = hanging \cup {rec.vol}
          /\ rec' = Done
          /\ UNCHANGED <<tableVars, app, vstate, asked, call>>
    /\ UNCHANGED pod

LateClean(v) ==
    /\ v \in hanging
    /\ CleanSource(v)
    /\ hanging' = hanging \ {v}
    /\ UNCHANGED <<pod, app, vstate, asked, call, rec, faults>>

RecLock ==
    /\ rec.pc = "lock"
    /\ RecContinue([rec EXCEPT !.pc = "wait"])
    /\ UNCHANGED <<tableVars, pod>>

(* mutant: the pod is created again without its references *)
RecRecreate_NoRefs ==
    LET v == rec.vol
    IN  /\ rec.pc = "wait"
        /\ pod[v].phase = "terminating" => pod[v].fin
        /\ pod' = [pod EXCEPT ![v] = IF @.phase = "absent" THEN NewPod({})
                                     ELSE @]
        /\ RecContinue(Done)
        /\ UNCHANGED tableVars

(* Once the pod is gone it is created again with its references (umount of *)
(* a source path that does not exist changes nothing); a pod another call  *)
(* created in the meantime gets the references.  The wait ends after a     *)
(* minute when the pod that is there cannot go.                            *)
RecRecreate ==
    LET v == rec.vol
        refs == pod[v].refs \cup rec.targets
    IN  /\ rec.pc = "wait"
        /\ pod[v].phase = "terminating" => pod[v].fin
        /\ pod' = [pod EXCEPT ![v] =
                     CASE pod[v].phase = "absent" -> NewPod(rec.targets)
                       [] pod[v].phase = "live" ->
                            [pod[v] EXCEPT !.refs = refs]
                       [] OTHER -> pod[v]]
        /\ RecContinue(Done)
        /\ UNCHANGED tableVars

-----------------------------------------------------------------------------
(* podReadyHandler *)

(* no recovery unless stat of the source path succeeds *)
PodReadyHandler ==
    /\ rec.pc = "ready"
    /\ RecContinue(IF src[rec.vol] \in {"live", "dir"}
                   THEN [rec EXCEPT !.pc = "target"] ELSE Done)
    /\ UNCHANGED <<tableVars, pod>>

(* resolveTargetItem with isPrefix: mount points that start with the path  *)
(* of the PV, which those of a PV with a longer name do as well            *)
SubPathTargets(a, v) ==
    {p \in Paths : /\ p.kind = "subpath" /\ p.app = a
                   /\ p.vol = v \/ <<v, p.vol>> \in NamePrefix
                   /\ rec.mis[p].count > 0}

(* mutant: a target that works is bound again as well *)
Items_Always(a, ps) ==
    {[path |-> p, pops |-> IF rec.mis[p].count > 0
                           THEN rec.mis[p].count - 1 ELSE 0, bind |-> TRUE]
       : p \in {q \in ps : Stat(q) # "notExist"}}

(* mutant: every mount of the target is taken off *)
Items_UmountAll(a, ps) ==
    {[path |-> p, pops |-> rec.mis[p].count, bind |-> TRUE]
       : p \in {q \in ps : Stat(q) = "corrupt"}}

(* mutant: no mount of the target is taken off *)
Items_KeepAll(a, ps) ==
    {[path |-> p, pops |-> 0, bind |-> TRUE]
       : p \in {q \in ps : Stat(q) = "corrupt"}}

(* recoverTarget, for the status each path has when it is resolved: one    *)
(* mount of a corrupt path is kept, for mountPropagation, and it is bound  *)
(* again; a path whose directory was removed is unmounted if its           *)
(* application pod is being deleted.                                       *)
Items(a, ps) ==
    {[path |-> p, pops |-> IF rec.mis[p].count > 0
                           THEN rec.mis[p].count - 1 ELSE 0, bind |-> TRUE]
       : p \in {q \in ps : /\ Stat(q) = "corrupt"
                           /\ ~rec.mis[q].inconsistent
                           /\ rec.apps[a] # "deleting"}}
    \cup
    {[path |-> p, pops |-> rec.mis[p].count, bind |-> FALSE]
       : p \in {q \in ps : /\ Stat(q) = "notExist"
                           /\ rec.mis[q].count > 0
                           /\ rec.apps[a] = "deleting"}}

RecResolve(a) ==
    /\ rec.pc = "target"
    /\ rec.items = {}
    /\ a \in rec.targets
    /\ RecContinue([rec EXCEPT
          !.targets = @ \ {a},
          !.items = Items(a, {Target(a, rec.vol)}
                             \cup SubPathTargets(a, rec.vol))])
    /\ UNCHANGED <<tableVars, pod>>

RecRecovered ==
    /\ rec.pc = "target"
    /\ rec.items = {}
    /\ rec.targets = {}
    /\ RecContinue(Done)
    /\ UNCHANGED <<tableVars, pod>>

(* the target of the pod first, then its subpath targets *)
Current(it) ==
    /\ rec.pc = "target"
    /\ it \in rec.items
    /\ it.path.kind = "subpath" =>
          \A other \in rec.items : other.path.kind = "subpath"

(* umountTarget, one umount; its errors are ignored *)
RecUmount(it) ==
    /\ Current(it)
    /\ it.pops > 0
    /\ Umount(it.path)
    /\ RecContinue([rec EXCEPT
          !.items = (@ \ {it}) \cup {[it EXCEPT !.pops = it.pops - 1]}])
    /\ UNCHANGED pod

(* The bind.  The directory of a subpath has to be found in the source. *)
RecBind(it) ==
    /\ Current(it)
    /\ it.pops = 0
    /\ \/ /\ it.bind
          /\ it.path.kind = "subpath" =>
                src[rec.vol] = "live" /\ rec.vol \in subdirs
          /\ \E st \in Shown(rec.vol) : BindMount(it.path, rec.vol, st)
       \/ /\ \/ ~it.bind
             \/ MountFails(it.path, rec.vol)
             \/ /\ it.path.kind = "subpath"
                /\ src[rec.vol] # "live" \/ rec.vol \notin subdirs
          /\ UNCHANGED tableVars
    /\ RecContinue([rec EXCEPT !.items = @ \ {it}])
    /\ UNCHANGED pod

-----------------------------------------------------------------------------
(* The mount pod's container and kubelet (external) *)

Others == UNCHANGED <<app, vstate, asked, call, rec, hanging>>

(* The client mounts JuiceFS on the source path, over what is left there.  *)
(* It takes longer to start than the second doWithinTime grants.           *)
ClientUp(v) ==
    /\ pod[v].phase = "live"
    /\ ~pod[v].up
    /\ ~(rec.pc = "clean" /\ rec.vol = v)
    /\ pod' = [pod EXCEPT ![v].up = TRUE]
    /\ src' = [src EXCEPT ![v] = "live"]
    /\ Others
    /\ UNCHANGED <<mounts, dirs, subdirs, faults>>

(* the readiness probe: the source path is the root of a JuiceFS *)
Probe(v) ==
    /\ pod[v].phase # "absent"
    /\ pod[v].up
    /\ pod[v].ready # (src[v] = "live")
    /\ pod' = [pod EXCEPT ![v].ready = (src[v] = "live")]
    /\ Others
    /\ UNCHANGED <<tableVars, faults>>

ClientCrash(v) ==
    /\ pod[v].up
    /\ OneShot("clientCrash")
    /\ pod' = [pod EXCEPT ![v].up = FALSE, ![v].ready = FALSE]
    /\ ClientDies(v)
    /\ Others

UserDelete(v) ==
    /\ pod[v].phase = "live"
    /\ OneShot("userDelete")
    /\ pod' = [pod EXCEPT ![v].phase = "terminating"]
    /\ Others
    /\ UNCHANGED tableVars

(* preStop: umount the source path and rmdir it.  The binds still work. *)
PreStop(v) ==
    /\ pod[v].phase = "terminating"
    /\ pod[v].up
    /\ src[v] = "live"
    /\ src' = [src EXCEPT ![v] = "none"]
    /\ Others
    /\ UNCHANGED <<mounts, dirs, subdirs, pod, faults>>

ClientStops(v) ==
    /\ pod[v].phase = "terminating"
    /\ pod[v].up
    /\ src[v] # "live"
    /\ pod' = [pod EXCEPT ![v].up = FALSE, ![v].ready = FALSE]
    /\ ClientDies(v)
    /\ Others
    /\ UNCHANGED faults

PodGone(v) ==
    /\ pod[v].phase = "terminating"
    /\ ~pod[v].up
    /\ ~pod[v].fin
    /\ pod' = [pod EXCEPT ![v] = Absent]
    /\ Others
    /\ UNCHANGED <<tableVars, faults>>

RemoveDir(v) ==
    /\ pod[v].up
    /\ OneShot("removeDir")
    /\ DirectoryRemoved(v)
    /\ Others
    /\ UNCHANGED pod

-----------------------------------------------------------------------------
(* Application pods and their kubelet (external) *)

AppStep(a, from, to) ==
    /\ app[a] \in from
    /\ app' = [app EXCEPT ![a] = to]
    /\ UNCHANGED <<tableVars, pod, vstate, asked, call, rec, hanging, faults>>

AppCreate(a) == AppStep(a, {"absent"}, "starting")

AppRun(a) ==
    /\ \A u \in UsesOf(a) : /\ vstate[u] = "published"
                            /\ u \in SubUses => mounts[SubPath(a, u[2])] # <<>>
    /\ AppStep(a, {"starting"}, "running")

AppDelete(a) ==
    /\ \A u \in UsesOf(a) : asked[u] = Nobody
    /\ AppStep(a, {"starting", "running"}, "deleting")

AppGone(a) ==
    /\ \A u \in UsesOf(a) : vstate[u] \in {"none", "unpublished"}
    /\ AppStep(a, {"deleting"}, "gone")

Ask(w, u, label) ==
    /\ asked[u] = Nobody
    /\ call[w].pc = "idle"
    /\ asked' = [asked EXCEPT ![u] = w]
    /\ call' = [call EXCEPT ![w] = [pc |-> label, app |-> u[1], vol |-> u[2]]]
    /\ UNCHANGED <<tableVars, pod, app, rec, hanging, faults>>

(* kubelet publishes until it succeeds *)
AskPublish(w, u) ==
    /\ app[u[1]] = "starting"
    /\ vstate[u] # "published"
    /\ vstate' = [vstate EXCEPT ![u] = "uncertain"]
    /\ Ask(w, u, "p_mkdir")

(* kubelet cleans the subpaths of a volume before it unpublishes it *)
AskUnpublish(w, u) ==
    /\ app[u[1]] = "deleting"
    /\ vstate[u] \in {"published", "uncertain"}
    /\ u \in SubUses => mounts[SubPath(u[1], u[2])] = <<>>
    /\ UNCHANGED vstate
    /\ Ask(w, u, "u_loop")

(* kubelet binds the directory of a subPath, made if it is missing *)
SubPathBind(u) ==
    LET t == Target(u[1], u[2])
        p == SubPath(u[1], u[2])
    IN  /\ app[u[1]] = "starting"
        /\ vstate[u] = "published"
        /\ mounts[t] # <<>> /\ Stat(t) = "ok"
        /\ mounts[p] = <<>>
        /\ mounts' = [mounts EXCEPT ![p] = <<[vol |-> u[2], st |-> Top(t)]>>]
        /\ dirs' = dirs \cup {p}
        /\ subdirs' = IF Top(t) = "live" THEN subdirs \cup {u[2]}
                      ELSE subdirs
        /\ Others
        /\ UNCHANGED <<src, pod, faults>>

(* kubelet's clean up of a subpath, which does not unmount a path whose    *)
(* directory was removed                                                   *)
SubPathClean(u) ==
    LET p == SubPath(u[1], u[2])
    IN  /\ app[u[1]] = "deleting"
        /\ mounts[p] # <<>> /\ Stat(p) # "notExist"
        /\ Umount(p)
        /\ Others
        /\ UNCHANGED <<pod, faults>>

(* kubelet gives a call up, which has run for a while then; the plugin     *)
(* goes on with it                                                         *)
CallTimeout(u) ==
    /\ asked[u] # Nobody
    /\ call[asked[u]].pc # "p_mkdir"
    /\ OneShot("callTimeout")
    /\ asked' = [asked EXCEPT ![u] = Nobody]
    /\ UNCHANGED <<tableVars, pod, app, vstate, call, rec, hanging>>

(* the node plugin restarts: its calls and its round are lost *)
PluginCrash ==
    /\ OneShot("pluginCrash")
    /\ asked' = [u \in Uses |-> Nobody]
    /\ call' = [w \in Workers |-> IdleCall]
    /\ rec' = IdleRec
    /\ hanging' = {}
    /\ UNCHANGED <<tableVars, pod, app, vstate>>

-----------------------------------------------------------------------------
Call(w) ==
    \/ PublishMkdir(w) \/ JMount(w) \/ WaitReady(w) \/ CreateVol(w)
    \/ PublishBind(w)  \/ UmountLoop(w) \/ CleanTarget(w) \/ JUmount(w)

Reconcile ==
    \/ RecList \/ RecParse \/ RecEnd
    \/ \E v \in Vols : RecRun(v)
    \/ PodDeletedHandler \/ RecClean \/ RecLock \/ RecRecreate
    \/ PodReadyHandler \/ RecRecovered
    \/ \E a \in Apps : RecResolve(a)
    \/ \E it \in rec.items : RecUmount(it) \/ RecBind(it)

Container(v) == ClientUp(v) \/ PreStop(v) \/ ClientStops(v) \/ PodGone(v)

Kubelet(a) ==
    \/ AppCreate(a) \/ AppRun(a) \/ AppGone(a)
    \/ \E u \in UsesOf(a) :
          \/ u \in SubUses /\ (SubPathBind(u) \/ SubPathClean(u))
          \/ \E w \in Workers : AskPublish(w, u) \/ AskUnpublish(w, u)

Fault ==
    \/ \E v \in Vols : ClientCrash(v) \/ UserDelete(v) \/ RemoveDir(v)
    \/ \E u \in Uses : CallTimeout(u)
    \/ PluginCrash

Next ==
    \/ \E w \in Workers : Call(w)
    \/ Reconcile
    \/ \E v \in Vols : Container(v) \/ Probe(v) \/ LateClean(v)
    \/ \E a \in Apps : Kubelet(a) \/ AppDelete(a)
    \/ Fault

Spec == Init /\ [][Next]_vars

(* Every thread, the containers and kubelet go on.  Application pods need  *)
(* not be deleted, and no fault has to happen.                             *)
Fairness ==
    /\ \A w \in Workers : WF_vars(Call(w))
    /\ WF_vars(Reconcile)
    /\ \A v \in Vols : /\ WF_vars(Container(v))
                       /\ WF_vars(Probe(v))
                       /\ WF_vars(LateClean(v))
    /\ \A a \in Apps : WF_vars(Kubelet(a))

FairSpec == Spec /\ Fairness

-----------------------------------------------------------------------------
(* The type of every variable. *)
TypeOK ==
    /\ mounts \in [Paths -> Seq(Entry)]
    /\ dirs \subseteq Paths
    /\ src \in [Vols -> {"none", "dir", "live", "dead"}]
    /\ subdirs \subseteq Vols
    /\ pod \in [Vols -> Pod]
    /\ app \in [Apps -> {"absent", "starting", "running", "deleting", "gone"}]
    /\ vstate \in [Uses -> {"none", "uncertain", "published", "unpublished"}]
    /\ asked \in [Uses -> Workers \cup {Nobody}]
    /\ \A w \in Workers :
          \/ call[w] = IdleCall
          \/ /\ call[w].pc \in CallLabels
             /\ <<call[w].app, call[w].vol>> \in Uses
    /\ rec.items \subseteq Item
    /\ hanging \subseteq Vols
    /\ faults \in 0..MaxFaults

(* NodeUnpublishVolume succeeded for a target: nothing is mounted on it    *)
(* any more and its directory is gone, although the reconciler, working    *)
(* from an older mount table, or a NodePublishVolume call kubelet gave up  *)
(* may still try to bind it.                                               *)
UnpublishedIsUnbound ==
    \A u \in Uses : vstate[u] = "unpublished" =>
        /\ mounts[Target(u[1], u[2])] = <<>>
        /\ Target(u[1], u[2]) \notin dirs

(* A published target keeps a mount until its pod is deleted, whatever the *)
(* reconciler takes off: with none left mountPropagation would not bring   *)
(* a recovered mount to the containers.                                    *)
PublishedStaysMounted ==
    \A u \in Uses :
        vstate[u] = "published" /\ app[u[1]] \in {"starting", "running"} =>
            mounts[Target(u[1], u[2])] # <<>>

(* However often a client crashes, a path has at most two mounts, the one  *)
(* that is kept and the one that was bound last.                           *)
MountsBounded == \A p \in Paths : Len(mounts[p]) <= 2

(* The reconciler does not take a mount that works from a running pod. *)
RecoveryKeepsWorking ==
    [][\A p \in Paths :
          /\ rec' # rec
          /\ app[p.app] = "running"
          /\ mounts[p] # <<>> /\ Top(p) = "live"
          => mounts'[p] # <<>> /\ Top(p)' = "live"]_vars

Broken(p) == mounts[p] # <<>> /\ Top(p) = "dead"

(* A bind that lost its client works again, or its pod is deleted. *)
Recovered ==
    \A p \in Paths :
        app[p.app] = "running" /\ Broken(p) ~>
            ~Broken(p) \/ app[p.app] # "running"

(* An application pod that is created starts, unless it is deleted. *)
AppStarts ==
    \A a \in Apps : app[a] = "starting" ~> app[a] # "starting"

(* An application pod that is deleted is removed from the node. *)
AppRemoved ==
    \A a \in Apps : app[a] = "deleting" ~> app[a] = "gone"

-----------------------------------------------------------------------------
(* What the code does not guarantee (README, Known deviations). *)

(* What is mounted on a path of a volume is that volume: not so when the   *)
(* name of one volume is a prefix of the name of another.                  *)
ShowsItsVolume ==
    \A p \in Paths : \A i \in DOMAIN mounts[p] : mounts[p][i].vol = p.vol

(* No target shows a directory of the node's own disk: not so when the     *)
(* mount pod stops between WaitReady and PublishBind.                      *)
ShowsJuiceFS ==
    \A p \in Paths : \A i \in DOMAIN mounts[p] : mounts[p][i].st # "local"

(* A running client has its source path mounted, unless it is being        *)
(* stopped: not so when the clean up after an earlier pod comes late.      *)
ServingIsMounted ==
    \A v \in Vols : pod[v].up /\ pod[v].phase = "live" => src[v] = "live"

=============================================================================
