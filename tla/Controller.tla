----------------------------- MODULE Controller -----------------------------
(***************************************************************************)
(* The controller side of the driver for one volume, with FormatInPod:     *)
(* controllerService.CreateVolume and DeleteVolume on top of the volume    *)
(* jobs, called by the external provisioner of a claim.  The provisioner   *)
(* has one call open at a time, repeats it until it succeeds and gives it  *)
(* up after a minute, which the handler thread does not notice.            *)
(***************************************************************************)
EXTENDS VolumeJob

CONSTANT NoCall

ASSUME CallAssumption == NoCall \notin Callers

VARIABLES
    vols,     \* d.vols has the volume (its capacity is that of the claim)
    prov,     \* what the provisioner has got to
    call,     \* the thread whose answer it waits for
    givenUp   \* history: it has given up a call

vars == <<jobVars, vols, prov, call, givenUp>>

TypeOK ==
    /\ JobTypes
    /\ vols \in BOOLEAN
    /\ prov \in {"provisioning", "bound", "deleting", "deleted"}
    /\ call \in Callers \cup {NoCall}
    /\ givenUp \in BOOLEAN

Init ==
    /\ job = [n \in Kinds |-> NoJob]
    /\ sec = [n \in Kinds |-> "absent"]
    /\ late = {} /\ lost = FALSE /\ dir = FALSE
    /\ at = [c \in Callers |-> "idle"]
    /\ op = [c \in Callers |-> "createvol"]
    /\ exist = {} /\ made = {} /\ faults = 0
    /\ vols = FALSE
    /\ prov = "provisioning"
    /\ call = NoCall
    /\ givenUp = FALSE

-----------------------------------------------------------------------------
(* A call of the provisioner reaches thread c. *)
StartCall(c, k) ==
    /\ call = NoCall /\ at[c] = "idle"
    /\ call' = c
    /\ GotoJob(c, "get")
    /\ op' = [op EXCEPT ![c] = k]
    /\ UNCHANGED <<job, sec, late, lost, dir, exist, made, faults, prov, givenUp>>

(* the volume is recorded before there is one *)
CreateVolume(c) ==
    /\ prov = "provisioning"
    /\ StartCall(c, "createvol")
    /\ vols' = TRUE

DeleteVolume(c) ==
    /\ prov = "deleting"
    /\ StartCall(c, "delvol")
    /\ UNCHANGED vols

ProvAfter(k) == IF k = "createvol" THEN "bound" ELSE "deleted"

(* The handler returns, whether or not anybody waits for its answer. *)
ReturnCall(c) ==
    /\ at[c] \in {"ok", "err"}
    /\ GotoJob(c, "idle")
    /\ vols' = IF at[c] = "ok" /\ op[c] = "delvol" THEN FALSE ELSE vols
    /\ IF call = c
       THEN /\ call' = NoCall
            /\ prov' = IF at[c] = "ok" THEN ProvAfter(op[c]) ELSE prov
       ELSE UNCHANGED <<call, prov>>
    /\ UNCHANGED <<job, sec, late, lost, dir, op, exist, made, faults, givenUp>>

CallTimeout ==
    /\ JobOneShot("callTimeout")
    /\ call # NoCall
    /\ at[call] \notin {"ok", "err"}
    /\ call' = NoCall
    /\ givenUp' = TRUE
    /\ UNCHANGED <<job, sec, late, lost, dir, at, op, exist, made, vols, prov>>

(* The claim is deleted, and its volume with it. *)
ReleaseVolume ==
    /\ prov = "bound"
    /\ prov' = "deleting"
    /\ UNCHANGED <<jobVars, vols, call, givenUp>>

(* The controller restarts, after a crash or a panic of one of its threads *)
Restart ==
    /\ at' = [c \in Callers |-> "idle"]
    /\ exist' = {} /\ made' = {}
    /\ call' = NoCall
    /\ vols' = FALSE
    /\ UNCHANGED <<job, sec, late, lost, dir, op, prov, givenUp>>

Crash == JobOneShot("crash") /\ Restart

Panic == (\E c \in Callers : at[c] = "panic") /\ Restart /\ UNCHANGED faults

-----------------------------------------------------------------------------
Handler(c) == VolumeJobStep(c) /\ UNCHANGED <<vols, prov, call, givenUp>>

(* the job controller and the kubelet *)
JobRuns(n) ==
    /\ JobCreatesPod(n) \/ JobPodRuns(n) \/ JobCompletes(n)
    /\ UNCHANGED <<vols, prov, call, givenUp>>

(* the TTL controller and the garbage collector *)
CleanUp(n) ==
    /\ JobExpires(n) \/ JobSecretCollected(n) \/ LatePodKilled(n)
    /\ UNCHANGED <<vols, prov, call, givenUp>>

Call(c) == CreateVolume(c) \/ DeleteVolume(c)

Next ==
    \/ \E c \in Callers : Handler(c) \/ Call(c) \/ ReturnCall(c)
    \/ \E n \in Kinds : JobRuns(n) \/ CleanUp(n)
    \/ \E n \in Kinds : /\ JobPodFails(n) \/ JobFails(n) \/ LatePodRuns(n)
                        /\ UNCHANGED <<vols, prov, call, givenUp>>
    \/ CallTimeout \/ ReleaseVolume \/ Crash \/ Panic

Spec == Init /\ [][Next]_vars

(* Threads run, the provisioner repeats its call, and the controllers of   *)
(* the cluster do their work.  The claim need not be deleted.              *)
Fairness ==
    /\ \A c \in Callers : WF_vars(Handler(c)) /\ WF_vars(ReturnCall(c))
    /\ WF_vars(\E c \in Callers : Call(c))
    /\ \A n \in Kinds : WF_vars(JobRuns(n)) /\ WF_vars(CleanUp(n))
    /\ WF_vars(Panic)

FairSpec == Spec /\ Fairness

-----------------------------------------------------------------------------
(* A volume CreateVolume has reported as created has its directory: not so *)
(* when the job has failed and its TTL removed it.                         *)
ProvisionedHasDirectory == prov = "bound" => dir

(* What waitUtilJobCompleted takes for the end of the job is the end of    *)
(* the job, through crashes, panics, given-up calls and repeated ones: a   *)
(* volume is reported as created without its directory only if a job was   *)
(* removed that had not completed, by its TTL after it failed or by a call *)
(* that waited too long.                                                   *)
ProvisionedUnlessLost == prov = "bound" => dir \/ lost

(* The directory of a volume DeleteVolume has reported as deleted is gone, *)
(* and no job brings it back: only the pod of a lost job can, or a         *)
(* CreateVolume call that was given up and still runs.                     *)
DeletedUnlessLost == prov = "deleted" => ~dir \/ lost \/ givenUp

(* Every claim gets its volume and every volume is deleted in the end,     *)
(* although createOrUpdateSecret may hand a job the secret of an earlier   *)
(* one, which is collected before the job's pod can start.                 *)
CallsSucceed ==
    /\ prov = "provisioning" ~> prov = "bound"
    /\ prov = "deleting" ~> prov = "deleted"

=============================================================================
