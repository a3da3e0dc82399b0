# TLA+ models of the JuiceFS CSI driver

The driver makes a JuiceFS file system available to application pods.  On every
node it runs one *mount pod* per volume, shared by all application pods of the
node that use the volume; a reference count in the annotations of the mount pod
says who they are.  The controller makes and removes the directory of a
dynamically provisioned volume in a Kubernetes job.  Both keep their state in
objects of the API server and in the mount table of the node, which several
threads, the kubelet, the garbage collector and users change at the same time.
A mode without mount pods and jobs, in which the driver starts the JuiceFS
client as a process of its own, keeps all of it in the mount table.  That is
what is modelled here.

## 1. Inventory

| Component | State | Operations | Interacts with | Hard behaviour |
|---|---|---|---|---|
| Node service (`pkg/driver/node.go`, `juicefs.go`) | none of its own | NodePublishVolume, NodeUnpublishVolume | kubelet (gRPC), PodMount, mount table | calls repeated, given up and overlapping |
| PodMount (`pkg/juicefs/mount/pod_mount.go`) | mount pod: annotations `juicefs-<hash>` (references), `juicefs-delete-at`, finalizer; its secret; mutex per pod name | JMount (createOrAddRef, AddRefOfMount, waitUtilPodReady), JUmount | API server, reconciler | read-modify-write over several requests, delete by name, waits under the mutex |
| PodDriver and reconciler (`pkg/controller/pod_driver.go`, `reconciler.go`, `mountinfo.go`) | pod list of the round (`deletedPods`), copy of the mount pod | doReconcile, Run, checkAnnotations, podErrorHandler, podDeletedHandler, podReadyHandler | kubelet's pod list, API server, mount table | stale lists and copies, conflicts, deletion and re-creation |
| Volume jobs (`pod_mount.go`, `builder/job.go`, `util/job.go`) | job, its pod, its secret | JCreateVolume, JDeleteVolume, waitUtilJobCompleted | job controller, TTL controller, garbage collector | no lock, jobs shared by repeated calls, objects that vanish |
| Controller service (`pkg/driver/controller.go`) | `vols` in memory | CreateVolume, DeleteVolume | external provisioner, volume jobs | restarts, given-up calls |
| Bind mount recovery (`podReadyHandler`, `recoverTarget`, `mountinfo.go`) | mount table | bind again, unmount, clean up | mount pod, NodePublishVolume, NodeUnpublishVolume, kubelet's subpaths | stale mount table, piled up and corrupt mounts, clean ups that outlive their timeout |
| ProcessMount (`process_mount.go`) | mount table | JMount, JUmount by process | kernel, node service, controller | reference count = mount table, no lock |
| Settings, AuthFs, ceFormat, Builder (`setting.go`, `juicefs.go`, `builder/`) | pod spec of the first publish, secret of the latest, the plugin's resource maps | ParseSetting, getSettings, NewMountPod, NewSecret | PodMount | pod and secret from different publishes, maps shared between pods |
| Kubelet client, identity, version, deployment | - | - | - | constant answers or I/O |

What makes them correct:

* PodMount: a mount pod is deleted only when nobody uses it, two publishes do
  not create it twice, a delete delay is honoured, every publish succeeds in
  the end.
* PodDriver: only references of pods that are gone are dropped, leftovers of
  crashes and lost calls are cleaned up, a deleted mount pod in use comes back.
* Volume jobs and controller: what is reported as created or deleted is, and
  every request gets there in the end, by job or by process.
* Bind mounts: a published target is mounted and shows the volume it belongs
  to, an unpublished one is not mounted, a bind that lost its client works
  again, pods start and are removed.
* ProcessMount: the same, on one mount path that all calls share without a lock:
  a publish that is repeated succeeds, what calls leave behind is bounded.
* Settings: a mount pod can start from its spec and its secret whatever was
  written to the secret since, formats with the options of its secrets, and has
  its own volume's resources and access mode.

`PROJECT.json` lists the hazards behind these properties line by line.

## 2. Modules

```
OwnedSecret <- PodApi <- PodMount, PodDriver <- MountPod <- MCMountPod
MountPod, RefCount <- MountPodRefines <- MCMountPodRefines, MountPodProofs
OwnedSecret <- VolumeJob <- Controller <- MCController, ControllerProofs
MountTable <- Recovery <- MCRecovery, RecoveryProofs <- StackProofs
ProcessMount <- ProcessNode       <- MCProcess, ProcessNodeProofs
             <- ProcessController <- MCProcessController, ProcessControllerProofs
Settings, OwnedSecret <- MountPodSettings <- MCSettings, SettingsProofs
DeleteDelay <- MCDeleteDelay, DeleteDelayProofs
```

**OwnedSecret** - the secret of a mount pod or job: `createOrUpdateSecret`
creates it with the uid of an owner or keeps the owner it has.

**PodApi** - one mount pod as the API server stores it (`api`), the copies the
threads hold (`view`), the mutex of its name (`lock`), `ShouldDelay`, `HasRef`.
`fresh` stands for `resourceVersion`: an Update succeeds iff the writer's copy
is the latest one, and since `UpdatePod` throws the server's answer away, the
writer's copy is stale afterwards.  `DeletePod` has no precondition, as in the
code.

**PodMount** - the handler threads.  One action is one request with the
decision taken on its answer:

| Code | Actions (label of the thread before) |
|---|---|
| createOrAddRef | PubLock (p_lock), PubGet and PubGiveUp (p_get), PubCreate (p_create), PubSecret (p_newSecret, p_secret) |
| AddRefOfMount | AddRefGet (p_addGet), AddRefUpdate (p_addUpd) |
| waitUtilPodReady | WaitUtilPodReady, WaitReadyExpires (p_wait) |
| JUmount | UmountLock, UmountGet, UmountRefGet, UmountRefUpdate, UmountNewGet |
| deleteMountPod in JUmount | UmountDelGet, UmountMark, UmountDelete |
| error returns | UpdateFails, WorkerApiError, LocalError |

**PodDriver** - the reconciler thread: RecList and RecApps (doReconcile, the
pod list), CheckAnnotations, PruneRefs, RecMark, RecDelete (checkAnnotations),
RecRefetch and Dispatch (Run), RemoveFinalizer ... Merge (podDeletedHandler),
ErrLock ... ErrRecreate (podErrorHandler).

**MountPod** - handlers and reconciler on one pod, with the environment: the
kubelet that starts and stops application pods, calls the plugin, repeats calls
and gives them up; containers that start, fail, stop; users who delete the pod;
the garbage collector; the clock; restarts of the plugin by crash or panic.

**VolumeJob**, **Controller** - JCreateVolume and JDeleteVolume, one action per
request (GetJob, CreateJob, JobSecret, WaitUtilJobCompleted, JobWaitExpires,
ListPods, DeleteJob), the life of a job, and CreateVolume and DeleteVolume as
the provisioner of one claim calls them.

**RefCount** - the abstract specification: a shared resource that users join and
leave, which ends only unused and, if it lingers, after a deadline.
**MountPodRefines** maps the mount pod to it: it is up while the pod is live,
its users are the references, its deadline is the annotation, and whoever runs
with a mounted volume is served.

**DeleteDelay** - `GetTimeAfterDelay`, `GetTime` and `ShouldDelay` on a clock
finer than a second: the deadline as a text of whole local seconds that is read
as UTC.

**MountTable** - mount points of a node: stacks of mounts on target and subpath
paths, the source path of each volume, what `stat`, `umount` and
`CleanupMountPoint` do to them.  A bind keeps the client it was made from.

**Recovery** - everything that touches these mounts.  A handler thread makes
the directory, gets its reference (createOrAddRef, one step here), waits,
runs CreateVol and binds; or unmounts in a loop, cleans up and drops the
reference.  The reconciler lists pods, parses the mount table, runs each mount
pod (RecRun: checkAnnotations and dispatch), and in podReadyHandler resolves the
targets and unmounts and binds them one by one; podDeletedHandler takes the
finalizer off and cleans or recreates.  The environment has clients that start,
crash and stop with their preStop, readiness probes, kubelet's own mounts for
subPaths, lost calls and restarts.

| Code | Actions |
|---|---|
| NodePublishVolume | PublishMkdir, JMount, WaitReady, CreateVol, PublishBind |
| NodeUnpublishVolume, JfsUnmount | UmountLoop, CleanTarget, JUmount |
| doReconcile, Run | RecList, RecParse, RecRun, RecEnd |
| podDeletedHandler, doWithinTime | PodDeletedHandler, RecClean, LateClean, RecLock, RecRecreate |
| podReadyHandler, recoverTarget, umountTarget | PodReadyHandler, RecResolve, RecUmount, RecBind, RecRecovered |

**ProcessMount** - JMount by process on one mount path: every process has a
device, mounts pile up, and a device ends with its last mount.  The look at the
mount path (JMount), the unmount of what is there and the start of the process
(JUnmount) and the wait (JPoll) are steps of their own, since nothing orders the
calls: an Unmount that finds nothing any more is an error.  **ProcessNode** puts
NodePublishVolume (PublishStart, PublishMount, PublishUnmount, PublishPoll,
CreateVol, Bind) and NodeUnpublishVolume (UmountCheck, FindRefs, UnmountTarget,
UnmountRef: JUmount's count of the mounts of a device and what it does with it)
on it, with any number of calls at a time, kubelet and restarts of the node;
**ProcessController** JfsCreateVol and JfsDeleteVol (GetSettings, VolMount,
VolRemount, VolPoll, CreateVol or DeleteVol, VolUnmount), with calls that were
given up beside their repetition.

**Settings** - pure operators: ParseSetting, getSettings with AuthFs and
ceFormat, NewSecret and the Builder of the mount pod.  Go maps are functions on
their keys, texts to be parsed are looked up in a table, a command is the set of
its options with values or with the variables the container's shell puts in.
**MountPodSettings** publishes and unpublishes volumes while their secrets are
replaced by any others, and keeps the pod as the first publish built it and the
secret as the latest one left it.  The secret has an owner (OwnedSecret): it may
outlive its pod, or the pod may be created again by the reconciler, and the
garbage collector then takes the secret whose owner is gone, under the pod that
uses it too.  `made` and `wrote` are history: the secrets a pod was built from
and those written to its secret since the secret was created.

Abstractions:

* One volume on one node, one claim.  Volumes share nothing but 1024 mutexes
  chosen by hash; no thread holds two of them.
* `RetryOnConflict` makes four attempts: after a conflict the model tries again
  or fails, without counting.
* Waits do not count polls.  They end when what is awaited happens; they expire
  if it cannot happen, or if the environment is "slow".  The 60 ms wait of
  podErrorHandler may expire at any time.
* The delay is one tick in MountPod, and `now` is one clock; seconds and time
  zone are in DeleteDelay.
* The pod list of a round is read after the copy of the mount pod in it (the
  kubelet adds a pod to its list before it publishes its volumes), and may be
  arbitrarily old when it is used.
* "apiError" is a request that fails without being applied.  The requests of
  createOrUpdateSecret are one step, except for a secret collected between its
  Get and Update.
* In MountPod, directories, CreateVol, bind mount, umount and the settings of a
  call are local steps that may fail (LocalError) and leave no trace in the pod;
  Recovery has them as steps, and in turn createOrAddRef and JUmount as one step
  each, without API errors, delay, or pods that fail for their resources.
* A client takes more than the second of doWithinTime to start, so a clean up
  that is within its time ends before the next client mounts.
* A bind of a directory of the node's disk is no mount point to
  CleanupMountPoint (IsLikelyNotMountPoint compares devices) and goes by umount
  only.
* ProcessMount models the community edition.  The number of devices at a time
  is bounded by MaxDevs: a publish that finds none free waits, which
  PublishAnswered excepts (a restart of the node frees them).
* Settings: keys that are treated alike have one representative, listed in the
  module; labels, annotations and the delete delay are only parsed, as no
  property is about them; a publish is one step.
* The capacity of a claim does not change, so `vols` only says whether it has
  the volume.  A command that fails goes on failing longer than the call that
  created the job waits (back-off of the container restarts against 30 s).

Environment faults are switched on by `Faults` (`JobFaults`); `MaxFaults`
bounds how many one-shot faults a behaviour has.  "slow" is no one-shot fault in
MountPod: it only lets waits expire.

## 3. Runs

| Run (module) | Instance | Checks |
|---|---|---|
| core (MCMountPod) | 2 targets, 2 threads, reconciler, delete delay, clock to 1, 1 fault of crash, userDelete, resource | TypeOK, NoPanic, UmountDeletesUnused, UmountHonoursDelay, FirstPassDropsOnlyDeleted, MarksOnlyUnused |
| sharedPod (MCMountPodRefines) | 2 targets, 2 threads, no reconciler, delay, clock to 2, 2 faults of every class but userDelete | MountedIsReferenced, ImplementsRefCount |
| gc (MCMountPod) | 1 target, 2 threads, reconciler, 1 fault of every class but resource and slow, fairness | UnusedPodDeleted, PublishSucceeds, MountPodRecreated |
| stalePrune (MCMountPod) | 2 targets, 2 threads, reconciler, no fault | violates PrunesOnlyDeleted |
| deadline (MCDeleteDelay) | half-second ticks, delays below and above a second, two further uses, UTC | TypeOK, KeptForDelay, NotKeptLonger |
| provision (MCController) | 2 threads, 2 faults of all classes, fairness | TypeOK, ProvisionedUnlessLost, DeletedUnlessLost, CallsSucceed |
| failedJob (MCController) | 2 threads, crash and a failing command | violates ProvisionedHasDirectory |
| unpublish (MCRecovery) | 1 pod with a subpath, 2 threads, 2 faults of all classes | UnpublishedIsUnbound, PublishedStaysMounted |
| recovered (MCRecovery) | 1 pod with a subpath, 1 thread, 2 faults of clientCrash, userDelete, fairness | MountsBounded, RecoveryKeepsWorking, Recovered, AppStarts, AppRemoved |
| byProcess (MCProcess) | 1 target, 3 threads, 4 devices, 2 faults of all classes, fairness | LeftoversBounded, PublishAnswered |
| provisionProcess (MCProcessController) | 1 claim, 2 threads, 5 devices, 2 faults of all classes, fairness | MountsLeftBounded, Answered |
| settings (MCSettings) | 1 volume, 2 targets, all secrets, replaced by any others at any time, resources of the shipped manifest | PodCanStart, SameCommand |

Why the bounds are enough:

* Two application pods and two handler threads are the smallest instance in
  which a publish, an unpublish and the reconciler overlap.  Targets and threads
  are symmetric; symmetry is used for safety only.  With the clock at 1 the
  deadline is set, waited for and passed.  The same properties are proved for
  every instance (section 5).
* The liveness properties are about each target on its own, so one target is
  enough; the second handler thread in gc is the one that is left when a lost
  call keeps the other busy.
* sharedPod may stop when all application pods are gone, provision when the
  volume is deleted, deadline at the horizon: they do not check deadlock.  With
  the reconciler RefCount is not implemented, which is what stalePrune shows.
* In provision the second thread is the repetition of a call that was given up.
  Two history variables say what went wrong before: `lost`, a job was removed
  before it completed, and `givenUp`, the provisioner gave up a call.
  Without a lost job nothing is reported as created that has no directory; a
  directory may come back after DeleteVolume if a CreateVolume that was given
  up is still on its way to CreateJob.
* In unpublish the second thread overlaps a given-up call with its repetition.
  One volume is enough except for what is matched by its name.
* By process all calls share one mount path, whoever they are for: the three
  threads of byProcess are a call and two kubelet gave up, with any of their
  steps in between.  The calls of a second pod differ in the target they bind
  and in when they are made; with `Targets = {t1, t2}`, `Workers = {w1, w2}`,
  `MaxDevs = 3`, `Faults = {}` the run passes as well.  In
  provisionProcess a device is always free: the mounts and processes are at most
  the faults and one (LoadInv, section 5); on the node mounts pile up on the
  mount path with every publish of another pod that fails after it started its
  process, so any bound is reached.  A restart of the
  node is no fault: it takes all mounts away, and kubelet starts the pods anew.
* PublishAnswered lets the calls of other targets be the reason why a publish
  fails: as long as they go on, each may unmount the mount path between the
  other's check and Unmount, for ever.  Once they stop it has to succeed.
* The secrets of settings are those of the documented examples of both editions,
  with two key pairs, encryption, environment, configs and old spellings, and
  some that are refused.  Any set replaces any other at any time.  PodCanStart
  and SameCommand are about a pod whose secret was written with what the pod was
  built from (`HasItsSecret`): after a collection, once a publish with these
  secrets came; that every pod is in this state does not hold (PodHasItsSecret,
  known deviations).
* unpublish, byProcess and provisionProcess do not check TypeOK: it is proved for
  them (section 5).

What the violations show:

* **stalePrune**: `Run` retries checkAnnotations after a conflict with a new
  copy of the mount pod and the old `deletedPods` (pod_driver.go:79-84).  The
  reference of an application pod that appeared in between is dropped.  On the
  first pass this cannot happen (FirstPassDropsOnlyDeleted, proved).
* **failedJob**: a job that failed and expired is taken for one that completed
  (pod_mount.go:286).

### Known deviations

Other properties one would expect do not hold either.  Each line names the run
to start from, what to change in its configuration (drop its properties and its
symmetry) and the property TLC then finds violated.

| Start from | Change | Violated | Because |
|---|---|---|---|
| core | `Faults = {}` | RecDeletesUnused | with a delay the reconciler goes from an old copy to `DeletePod` (pod_driver.go:153-162) without an Update that would meet the new version: a pod that has just got a user is deleted |
| gc | `Workers = {w1}`, `Faults = {"resource"}` | UnusedPodDeleted | a pod rejected for its resources and deleted before podErrorHandler took its finalizer off is skipped by podDeletedHandler (pod_driver.go:249) and podErrorHandler |
| gc | `Workers = {w1}`, `Faults = {"userDelete", "resource"}`, `MaxFaults = 2` | MountPodRecreated | the "1min" of podErrorHandler are 60 ms (pod_driver.go:200), after which a pod in use is not created again |
| gc | `Workers = {w1}`, `Faults = {"userDelete"}` | MountPodComesBack | the pod created again needs a secret that is owned by its predecessor and collected with it (pod_driver.go:349) |
| deadline | `Zone <- West` | KeptForDelay | the deadline is written in local time and read as UTC (util.go:252, 256) |
| recovered | `Spec`, `Vols = {v1, v2}`, `SubUses <- OtherSub`, `NamePrefix <- Chain`, one clientCrash | ShowsItsVolume | subpaths are found by a path prefix without a final slash (mountinfo.go:102-117) |
| recovered | `Spec`, `Apps = {a1, a2}`, `SubUses <- NoUses`, `Faults = {}` | ShowsJuiceFS | between the preStop of a mount pod and its end a publish takes it for ready, makes the mount path as a plain directory and binds it (juicefs.go:92, node.go:161) |
| recovered | `Spec`, `Apps = {a1, a2}`, `SubUses <- NoUses`, `Faults = {"hang"}` | ServingIsMounted | a clean up that outlived doWithinTime unmounts the next mount pod's path (pod_driver.go:285) |
| recovered | `OneDeleted`, `Apps = {a1, a2}`, `SubUses <- OneSub`, one removeDir | AppRemoved | the branch that unmounts a removed subpath for a deleted pod (pod_driver.go:435) needs a reference that checkAnnotations has dropped |
| recovered | `SubUses <- NoUses`, `Faults = {"userDelete", "pluginCrash"}` | Recovered | a restart between removing the finalizer and creating the pod again loses the references (pod_driver.go:256-349) |
| recovered | `Spec`, `Faults = {"callTimeout", "clientCrash"}` | MountsBounded, RecoveryKeepsWorking | a publish that was given up and its repetition both bind (node.go:161), and the second bind, made after the reconciler looked at the target, is what it then unmounts |
| recovered | `Spec`, `Vols = {v1, v2}`, `SubUses <- OtherSub`, `NamePrefix <- Chain`, `Faults = {"clientCrash"}`, `MaxFaults = 3` | MountsBounded | one round binds the subpath of the longer name twice, for its own mount pod and for that of the shorter name, with one count (mountinfo.go:102-117) |
| byProcess | `Spec`, `Targets = {t1, t2, t3}`, `Workers = {w1, w2}`, `MaxDevs = 5`, `Faults = {}`, `SYMMETRY Symmetry` | PublishedKept | two publishes that overlap bind one device to two targets, a third pod's JMount unmounts the mount path (process_mount.go:82), and the unpublish of the first pod takes the second pod's target for the one mount that is left and unmounts it (process_mount.go:155), although "the PVC might be used by more than one container" |
| byProcess | `Spec`, `Targets = {t1, t2}`, `Workers = {w1, w2}`, `Faults = {}` | PublishedShowsJuiceFS | JMount and JUmount have no lock and unmount what another publish is about to bind (process_mount.go:82, 155) |
| byProcess | `Spec` | UnpublishedIsUnmounted | a repeated publish binds again (node.go:161), JUmount unmounts once |
| provisionProcess | `Spec` | CreatedInJuiceFS | JMount of a given-up CreateVolume unmounts the mount path before CreateVol of its repetition (process_mount.go:82), which makes a directory on the disk of the controller's container and reports it |
| provisionProcess | `Spec` | DeletedFromJuiceFS | a given-up call unmounts the mount path under DeleteVol, or makes the directory again after it (juicefs.go:176) |
| settings | `Volumes = {v1, v2}`, `VolCtxs <- TwoCtxs` | OwnResources | parsePodResources writes the attributes of a volume into the map of the plugin's own container (builder/pod.go:87), which the shipped manifest fills (deploy/k8s.yaml:405-411): later mount pods inherit them, although attributes of a PV "define CPU/memory limits/requests of mount pod" (docs/en/introduction.md:224) |
| settings | - | ArgumentsOfOneSet | a replaced key pair reaches the secret of the pod but not its command line: half of each (pod_mount.go:253, juicefs.go:527-533) |
| settings | - | PodHasItsSecret | createOrUpdateSecret keeps the owner of a secret whose pod is gone, and so does the pod the reconciler creates again: the secret is collected under the pod that uses it (pod_mount.go:361, pod_driver.go:349) |
| settings | `ReadOnly = {TRUE, FALSE}` | ModeAsAsked | the first publish decides on `ro` for all users of the mount pod (node.go:125) |

PublishAnswered and Answered make an exception for a corrupt mount path: after
the process died PathExists fails, JMount returns the error, and no repetition gets over it
(process_mount.go:71).

## 4. Fairness

Liveness assumes what the code and its platform provide: every thread of the
plugin runs (weak fairness of Handler, Reconciler); a mutex reaches every waiter
(strong fairness of taking it: the starvation mode of `sync.Mutex`); the kubelet
repeats failed calls, also when threads are busy in between (strong fairness of
Publish and Unpublish for each target); containers start and stop, pods
without finalizer disappear, the garbage collector works, time passes (weak
fairness).  Nobody has to delete an application pod, and no fault has to happen.
On the controller side: threads, the repeating provisioner, and the job, TTL and
garbage collection controllers, each weakly fair.  Recovery: each handler
thread, the reconciler, containers, probes and the kubelet of each application
pod, weakly fair; application pods need not be deleted and no fault has to
happen.  By process: threads and starting processes weakly fair; on the node the
kubelet's repeated publish of each target strongly fair, as threads are busy in
between; on the controller the provisioner's repetition weakly fair, and a
format that is repeated does not fail for ever (strong fairness of GetSettings
that succeeds).

## 5. Proofs

The runs check small instances; the theorems hold for every value of the
constants that satisfies the named assumptions of the modules (the placeholders
`Nobody`, `Rec`, `NoCall`, `NoText` and the like are not among what they stand
beside, bounds are natural numbers, the pairs of `Uses` are of pods and
volumes).  A hypothesis beyond those is written in the theorem and listed with
it below; where it is about the environment, the known deviations show the
property violated without it.  Eight modules hold proofs, one for each component and, for the bind
mounts, a second one on how they pile up.

### The mount pod (MountPodProofs)

The properties are not inductive: that JUmount deletes an unused pod depends on
what every other thread can do between its read and its delete.  The inductive
invariant `IInv` is the conjunction of

* `TypeOK`;
* `LockInv`: a thread between Lock and Unlock holds the mutex;
* `FreshInv`: a copy with the latest version equals the pod of the server;
* `KnownInv`: references, in all copies, are of pods that have been started;
* `HandlerInv`: what a handler knows at each label (no pod when it creates one,
  no reference when it deletes, a deadline that has passed);
* `RecInv`: the reconciler's copy has no reference when it sets a deadline, and
  in the first pass every reference it will drop is of a pod being deleted.

One lemma per group of actions (HandlerPreserves, ReconcilerPreserves,
KubeletPreserves, ClusterPreserves), one step per action, one sub-step per
conjunct where the action can disturb it.

| Theorem | States |
|---|---|
| Invariance | Spec => []IInv |
| TypeCorrect | TypeOK |
| NoPanicHolds | NoPanic, if "apiError" is not among the faults: a CreatePod that fails for another reason does panic (pod_mount.go:237-241) |
| UmountDeletesUnusedHolds | UmountDeletesUnused |
| UmountHonoursDelayHolds | UmountHonoursDelay |
| FirstPassHolds | FirstPassDropsOnlyDeleted |
| MarksOnlyUnusedHolds | MarksOnlyUnused |
| MountedIsReferencedHolds | MountedIsReferenced without the reconciler and without users deleting the pod, by the further invariant `ServedInv` |
| RefinesRefCount | Spec => ImplementsRefCount, under the same two conditions |

The refinement rests on `IInv`, `ServedInv` and one fact more (`MarkInv`: a
handler about to write a deadline has read a pod without one).  Most actions
leave the mapped variables alone; the creation of the pod and AddRefUpdate map
to a user who joins, UmountRefUpdate to one who leaves, UmountMark sets the deadline, UmountDelete
ends the resource, and the kubelet's record of an answer makes a user a served
one.

### The delete delay (DeleteDelayProofs)

`IInv` says of which moment and delay the text in the annotation is
(`MarkInv`), that a pod that is gone was unused and past its deadline
(`GoneInv`), and until when it was let wait (`WaitInv`).  The arithmetic is one
lemma on the rounding of the deadline to whole seconds.

| Theorem | States |
|---|---|
| Invariance, TypeCorrect | Spec => []IInv, TypeOK, in every time zone |
| KeptForDelayHolds | KeptForDelay, for `Zone >= 0` |
| NotKeptLongerHolds | NotKeptLonger, for `Zone <= 0` |

### Volume jobs and controller (ControllerProofs)

`EffectInv` ties the directory to the jobs: one that has run, one a waiting
call no longer finds, and one whose call succeeded have had their effect.
`LateInv` says that pods outlive only lost jobs; `CreateInv` and `DeleteInv`
carry the effect to what the provisioner was told, for as long as no job was
lost (and, for a deletion, no call was given up).

| Theorem | States |
|---|---|
| Invariance, TypeCorrect | Spec => []IInv, TypeOK |
| ProvisionedUnlessLostHolds | ProvisionedUnlessLost |
| DeletedUnlessLostHolds | DeletedUnlessLost |

### Bind mounts (RecoveryProofs)

For any volumes, pods, uses, names, threads and faults, in particular with any
number of calls that overlap each other and the reconciler.  `TypeInv` has
besides TypeOK the shape of the round at each label (`RoundInv`), and that a
mount pod is referenced only by pods that use its volume (`RefInv`).  Then

* `EntryInv`: no target shows a removed directory, so that CleanupMountPoint of
  a target succeeds only when nothing is left on it;
* `CallInv`: a call that has yet to make the directory is the one kubelet waits
  for, and its pod is not deleted.  This is what keeps a publish kubelet gave up
  from making a cleaned target again: its bind finds no directory;
* `UnboundInv`: no mount and no directory from the clean up on;
* `ListInv`, `ItemInv`: pods the round takes for deleted are; a target is
  resolved once in a round, by the mount pod of its volume;
* `CountInv`: what the round counted on a target it has not resolved is still
  there, as only the round itself takes mounts from a pod that stays, and an
  item takes off less than there is.

Two lemmas carry most of it: `TableStep`, what any step may do to the stack of
a target, and `RoundFields`, what a step of the reconciler does to its round.

| Theorem | States |
|---|---|
| Invariance, TypeCorrect | Spec => []IInv, TypeOK |
| UnpublishedIsUnboundHolds | UnpublishedIsUnbound |
| PublishedStaysMountedHolds | PublishedStaysMounted |

### Bind mounts that pile up (StackProofs)

recoverTarget keeps one mount of a target and binds on top of it, and it decides
how many to take off by a count from a mount table that is old by then.  That
the stacks stay low all the same, and that what is taken off never works, holds
while kubelet waits for its calls and no volume's name is a prefix of another's
(`Patient`); both conditions are needed (known deviations).  Threads, volumes,
pods, subpaths and all other faults are free.  On top of IInv of RecoveryProofs
the inductive invariant `StackInv` has

* `AskedInv`, `FreshInv`: every call is one kubelet waits for, and the target of
  a publish under way has no mount yet, so a publish never adds a second one;
* `OneItemInv`: a round has one item for each path, subpaths as well;
* `HeightInv`, `LeftInv`: a stack the round has yet to resolve is as high as
  it counted, or has one mount at most; one it is about to bind again is
  at most one higher than what the item takes off, and stays non-empty.  The two
  bounds meet from both sides;
* `DeadInv`: a mount shows its own volume; with the client gone nothing works,
  and nothing below a mount that lost its client works.  A later client does
  not bring an old bind back;
* `BrokenInv`: nothing works on a path that is about to be bound again, so the
  items take off dead mounts only.

TLC checked StackInv as an invariant of the instance of recovered first.

| Theorem | States |
|---|---|
| StackInvariance | Spec => []StackInv |
| MountsBoundedHolds | MountsBounded |
| RecoveryKeepsWorkingHolds | RecoveryKeepsWorking |

### Mounting by process (ProcessNodeProofs, ProcessControllerProofs)

All theorems are for any number of threads, targets, devices and faults, and for
every interleaving of the calls.

On the node, `LeftoversBounded` is proved by keeping accounts.  A mount of a
target is `Surplus` unless it is the topmost one of a target that kubelet knows
as published, or is having unpublished by a call that has not unmounted it yet;
a publish that runs although nobody waits for it is `Late`, and may still bind a
mount.  `DebtInv` says that their union is finite and no larger than the faults.
Only a fault makes the union grow: a lost answer makes a publish late, or a
mount that an unpublish has taken off due no longer.  A late publish that binds
trades itself for its mount (DebtSwaps), and a call kubelet waits for never adds
to the union, by `AskedInv`: it is for the target and for what kubelet wants of
it.  This does not depend on what else is on the mount path, which is why
overlapping calls do not matter.

On the controller, what every call mounts somebody has to unmount, but calls
unmount each other's file systems, fail on nothing mounted, or on a client that
died.  `LoadInv` bounds the mounts, the processes about to mount and the
given-up calls that have not started theirs (`Fresh`) by the faults, and by one
more as long as the provisioner's own call may still unmount one; when that
call is bound to fail (`Failing`) the bound is the faults alone.

| Theorem | States |
|---|---|
| TypeCorrect (both) | TypeOK |
| Invariance (node) | Spec => []IInv |
| LeftoversBoundedHolds (node) | LeftoversBounded |
| MountsLeftBoundedHolds (controller) | MountsLeftBounded |

### Settings (SettingsProofs)

Both theorems are for every set of secrets, attributes and options, any
replacement of the secrets at any time, secrets that outlive their pods, and
collections under the pod that uses the secret.

| Theorem | States |
|---|---|
| PodCanStartHolds | PodCanStart, if no volume is given the option `rsa-key` itself (`NoKeyOption`), and the placeholder for no pod is no map (`NoneIsNoMap`) |
| SameCommandHolds | SameCommand, if the environments of volumes do not have the variables of the secret (`EnvsApart`), and `NoneIsNoMap` |

The lemmas are about the operators: what a map has after another was written
over it (OverFacts), what ParseSetting and getSettings leave of secrets and
options (ParseFacts, SettingFacts), which keys the secret has (SecretKeys) and
which the pod asks for (CommandParts, InitParts).

`StartInv` splits PodCanStart in two: a pod starts with every secret that has
the keys of what the pod was built from (`made`), and the secret has the keys of
all that was written to it since it was created (`wrote`).  Neither half speaks
of the other's secrets, so a replacement disturbs neither; a collection empties
`wrote`, and a publish that creates the secret again starts it anew.

`CommandInv` does the same for SameCommand: the command of the pod has the
options and variables of `made`, and the values in the secret are values of sets
in `wrote` for the key they stand for (StoredValues), whether a publish created
the secret or wrote over one.  What the container's shell puts together from
the two (CommandOfSecret) then has the options of the plugin's own run, and the
values of `made` or of another set written since.

### Only model-checked

The liveness properties: UnusedPodDeleted, PublishSucceeds and MountPodRecreated
(gc), CallsSucceed (provision), Recovered, AppStarts and AppRemoved (recovered),
PublishAnswered (byProcess), Answered (provisionProcess).
Fairness and ENABLED are beyond the prover.  Every invariant and action property
of a passing run is a theorem.

## 6. Not modelled

* JMount of the enterprise edition by process: it calls a mount helper that is
  not in the repository.
* The programs AuthFs and ceFormat run, the configuration file AuthFs may write,
  Upgrade and Version: external commands.
* What the API server accepts as a pod (two mounts on one path, names with an
  underscore: builder/common.go:107, 144).
* The HTTP client of the kubelet (its pod list is RecList), the gRPC server,
  flags, constant answers, deployment files: no state of their own.
* Data races on `d.vols` (controller.go:75): below the grain of the models; the
  fatal error they may end in is the Crash of Controller.

## 7. Plan

Done: all components of section 1 that have a state, with their runs, and the
proofs of section 5, the refinement among them.

Worth adding next: a specification of Recovery's targets as an abstract
"mounted or not" table it implements, and MountsBounded with a bound that grows
with the calls that were given up, in place of `Patient`.
