------------------------------- MODULE PodApi -------------------------------
(***************************************************************************)
(* The mount pod of one volume on one node, as the Kubernetes API server   *)
(* stores it, and the threads of the CSI node plugin that share it: gRPC   *)
(* handler threads (Workers) and the reconciler thread (Rec).  All of them *)
(* reach the pod through k8sclient and guard it with the mutex GetPodLock  *)
(* returns for its name.                                                   *)
(*                                                                         *)
(* Optimistic concurrency.  Every write of the pod changes its             *)
(* resourceVersion and an Update carries the version its copy was read at. *)
(* What matters of the version is whether a copy is still the latest one:  *)
(* "fresh" is the set of threads whose copy is.  UpdatePod throws the      *)
(* server's answer away, so a successful Update leaves the writer's own    *)
(* copy stale as well.                                                     *)
(***************************************************************************)
EXTENDS Integers, OwnedSecret

CONSTANTS
    Targets,     \* target paths (one per application pod using the volume)
    Workers,     \* gRPC handler threads of the node plugin
    Rec,         \* the reconciler thread
    Nobody,      \* no thread
    HasDelay,    \* the volume is configured with juicefs/mount-delete-delay
    Horizon,     \* bound on the clock
    Faults,      \* the fault classes the environment may exercise
    MaxFaults    \* bound on the number of one-shot faults

FaultClasses == {"slow", "apiError", "callTimeout", "crash", "userDelete",
                 "podError", "resource", "localError"}

ASSUME ThreadAssumption ==
    /\ Rec \notin Workers
    /\ Nobody \notin Workers
    /\ Nobody # Rec
ASSUME BoundAssumption ==
    /\ HasDelay \in BOOLEAN
    /\ Horizon \in Nat
    /\ MaxFaults \in Nat
    /\ Faults \subseteq FaultClasses

VARIABLES
    api,     \* the pod object stored by the API server
    secret,  \* the secret its containers read their environment from
    view,    \* view[a]: the copy of it thread a holds
    fresh,   \* the threads whose copy has the latest resourceVersion
    lock,    \* the thread holding the mutex of the pod's name
    pc,      \* pc[a]: where thread a is
    now,     \* the clock the delete deadlines are compared with
    faults   \* one-shot faults so far

apiVars == <<api, secret, view, fresh, lock, pc, now, faults>>

Threads == Workers \cup {Rec}

(* What the code reads of a pod: its phase (DeletionTimestamp set or not), *)
(* the juicefs-<hash> annotations (refs), juicefs-delete-at (delayAt, 0    *)
(* when absent), the finalizer, its status and its resource requests.      *)
Pod == [phase   : {"absent", "live", "terminating"},
        refs    : SUBSET Targets,
        delayAt : Nat,
        fin     : BOOLEAN,
        stat    : {"pending", "ready", "error", "resource"},
        res     : BOOLEAN]

Absent == [phase |-> "absent", refs |-> {}, delayAt |-> 0, fin |-> FALSE,
           stat |-> "pending", res |-> FALSE]

(* NewMountPod, with the reference createOrAddRef puts in its annotations. *)
NewMountPod(refs) ==
    [phase |-> "live", refs |-> refs, delayAt |-> 0, fin |-> TRUE,
     stat |-> "pending", res |-> TRUE]

Terminating(p) == [p EXCEPT !.phase = "terminating"]

-----------------------------------------------------------------------------
(* Requests to the API server.  A write leaves no copy fresh.              *)

WritePod(p) ==
    /\ api' = p
    /\ fresh' = {}
    /\ UNCHANGED secret

GetPod(a) ==
    /\ view' = [view EXCEPT ![a] = api]
    /\ fresh' = fresh \cup {a}
    /\ UNCHANGED <<api, secret>>

(* The copy goes out of scope. *)
DropCopy(a) ==
    /\ view' = [view EXCEPT ![a] = Absent]
    /\ fresh' = fresh \ {a}
    /\ UNCHANGED <<api, secret>>

(* UpdatePod(p) by thread a goes through, and its copy goes out of scope. *)
UpdateAndDrop(a, p) ==
    /\ a \in fresh
    /\ WritePod(p)
    /\ view' = [view EXCEPT ![a] = Absent]

(* DeletePod: by name, with no precondition on version or uid.  A pod that *)
(* is being deleted already is left as it is.                              *)
DeletePod ==
    /\ api.phase # "absent"
    /\ IF api.phase = "live" THEN WritePod(Terminating(api))
                             ELSE UNCHANGED <<api, secret, fresh>>

NoRequest == UNCHANGED <<api, secret, view, fresh>>

(* A fault of a class the environment may exercise happens. *)
OneShot(class) ==
    /\ class \in Faults
    /\ faults < MaxFaults
    /\ faults' = faults + 1

-----------------------------------------------------------------------------
(* Threads and the mutex of the pod's name (GetPodLock). *)

Goto(a, label) == pc' = [pc EXCEPT ![a] = label]

(* goto label, keeping the lock as it is *)
Step(a, label) == Goto(a, label) /\ UNCHANGED lock

Acquire(a, label) == lock = Nobody /\ lock' = a /\ Goto(a, label)

(* the deferred Unlock, then goto label *)
Release(a, label) ==
    /\ lock' = IF lock = a THEN Nobody ELSE lock
    /\ Goto(a, label)

(* mutant: the deadline compared the wrong way round *)
ShouldDelay_After(p) ==
    IF ~HasDelay THEN "delete"
    ELSE IF p.delayAt = 0 THEN "mark"
    ELSE IF now < p.delayAt THEN "delete" ELSE "wait"

(* ShouldDelay: what is to be done with a pod that has no reference left:  *)
(* delete it, mark it with a deadline, or let it wait for its deadline.    *)
ShouldDelay(p) ==
    IF ~HasDelay THEN "delete"
    ELSE IF p.delayAt = 0 THEN "mark"
    ELSE IF now < p.delayAt THEN "wait" ELSE "delete"

(* mutant: the delay is subtracted *)
TimeAfterDelay_Before == now - 1

(* GetTimeAfterDelay: the configured delay is one tick of the clock. *)
TimeAfterDelay == now + 1

(* mutant: a single reference is not counted *)
HasRef_OffByOne(p) == \E s, t \in p.refs : s # t

HasRef(p) == p.refs # {}

(* A wait for the pod to disappear is cut off after 1 minute.  That takes  *)
(* a slow environment, or a finalizer that the waiting keeps in place.     *)
WaitExpires ==
    /\ api.phase = "terminating"
    /\ "slow" \in Faults \/ api.fin

=============================================================================
