----------------------------- MODULE VolumeJob ------------------------------
(***************************************************************************)
(* PodMount.JCreateVolume and JDeleteVolume for one volume: the directory  *)
(* of the volume is made and removed by Kubernetes jobs, which a handler   *)
(* thread of the controller creates, or finds, by name and waits for.      *)
(* No lock guards a job: every call that is still running works on it.     *)
(*                                                                         *)
(* The job controller, the pod that runs the job's command, the TTL        *)
(* controller that removes finished jobs and the garbage collector are     *)
(* external.                                                               *)
(***************************************************************************)
EXTENDS Naturals, OwnedSecret

CONSTANTS
    Callers,     \* gRPC handler threads of the controller
    JobFaults,   \* the fault classes the environment may exercise
    MaxFaults    \* bound on the number of one-shot faults

JobFaultClasses == {"slow", "apiError", "callTimeout", "crash", "jobError"}

ASSUME JobAssumption ==
    /\ JobFaults \subseteq JobFaultClasses
    /\ MaxFaults \in Nat

VARIABLES
    job,      \* job[n]: the job object of name n
    sec,      \* sec[n]: the secret of the job of name n
    late,     \* commands of pods that outlive their deleted job
    lost,     \* history: a job was removed that had not completed
    dir,      \* the directory of the volume exists
    at,       \* at[c]: where thread c is
    op,       \* op[c]: the kind of call thread c serves
    exist,    \* the threads whose "exist" is the job object of today
    made,     \* those of them that created it
    faults    \* one-shot faults so far

jobVars == <<job, sec, late, lost, dir, at, op, exist, made, faults>>

Kinds == {"createvol", "delvol"}

(* mutant: one name for both jobs *)
JobName_NoSuffix(k) == "createvol"

(* GenJobNameByVolumeId(volumeId) + "-createvol" or "-delvol" *)
JobName(k) == k

(* A job is running until its pod is done; "failed" is the condition       *)
(* JobFailed.                                                              *)
Job == [phase : {"absent", "running", "complete", "failed"},
        cmd   : Kinds,
        pod   : {"none", "created", "failing", "done"}]

NoJob == [phase |-> "absent", cmd |-> "createvol", pod |-> "none"]

(* NewJobForCreateVolume, NewJobForDeleteVolume *)
NewJob(k) == [phase |-> "running", cmd |-> k, pod |-> "none"]

CallLabels == {"idle", "get", "create", "secret", "wait", "list", "delete",
               "ok", "err", "panic"}

(* The job of a name runs the command its name says. *)
JobTypes ==
    /\ job \in [Kinds -> Job]
    /\ \A n \in Kinds : job[n].phase # "absent" => job[n].cmd = n
    /\ sec \in [Kinds -> Secret]
    /\ late \subseteq Kinds
    /\ lost \in BOOLEAN
    /\ dir \in BOOLEAN
    /\ at \in [Callers -> CallLabels]
    /\ op \in [Callers -> Kinds]
    /\ exist \subseteq Callers
    /\ made \subseteq exist
    /\ faults \in 0..MaxFaults

-----------------------------------------------------------------------------
JobOf(c) == JobName(op[c])

GotoJob(c, label) == at' = [at EXCEPT ![c] = label]

JobOneShot(class) ==
    /\ class \in JobFaults
    /\ faults < MaxFaults
    /\ faults' = faults + 1

(* The job object of name n goes, by DeleteJob or by its TTL.  A pod that  *)
(* has not finished stays until the garbage collector gets to it.          *)
RemoveJob(n) ==
    /\ job' = [job EXCEPT ![n] = NoJob]
    /\ sec' = [sec EXCEPT ![n] = WithoutOwner(@)]
    /\ late' = IF job[n].pod \in {"created", "failing"}
               THEN late \cup {job[n].cmd} ELSE late
    /\ lost' = (lost \/ job[n].phase # "complete")
    /\ exist' = {c \in exist : JobOf(c) # n}
    /\ made' = made \cap exist'

(* the end of a call that left the job as it is *)
Return(c, label) ==
    /\ GotoJob(c, label)
    /\ exist' = exist \ {c}
    /\ made' = made \ {c}

-----------------------------------------------------------------------------
(* The handler thread *)

GetJob(c) ==
    /\ at[c] = "get"
    /\ IF job[JobOf(c)].phase = "absent"
       THEN GotoJob(c, "create") /\ UNCHANGED exist
       ELSE GotoJob(c, "secret") /\ exist' = exist \cup {c}
    /\ UNCHANGED <<job, sec, late, lost, made>>

CreateJob(c) ==
    /\ at[c] = "create"
    /\ IF job[JobOf(c)].phase = "absent"
       THEN /\ job' = [job EXCEPT ![JobOf(c)] = NewJob(op[c])]
            /\ GotoJob(c, "secret")
            /\ exist' = exist \cup {c}
            /\ made' = made \cup {c}
       ELSE Return(c, "err") /\ UNCHANGED job
    /\ UNCHANGED <<sec, late, lost>>

(* createOrUpdateSecret; on an error the job is left behind *)
JobSecret(c) ==
    /\ at[c] = "secret"
    /\ \/ /\ sec' = [sec EXCEPT ![JobOf(c)] =
                       CreateOrUpdateSecret(@, c \in exist)]
          /\ GotoJob(c, "wait")
          /\ UNCHANGED <<exist, made>>
       \/ /\ sec[JobOf(c)] = "orphaned"
          /\ sec' = [sec EXCEPT ![JobOf(c)] = "absent"]
          /\ Return(c, "err")
    /\ UNCHANGED <<job, late, lost>>

(* mutant: a job that has started counts as completed *)
IsJobCompleted_Started(j) == j.pod # "none"

IsJobCompleted(j) == j.phase = "complete"

(* mutant: a job that is not found is an error *)
WaitUtilJobCompleted_NotFound(c) ==
    /\ at[c] = "wait"
    /\ \/ job[JobOf(c)].phase = "absent" /\ Return(c, "err")
       \/ IsJobCompleted(job[JobOf(c)]) /\ Return(c, "ok")
    /\ UNCHANGED <<job, sec, late, lost>>

(* waitUtilJobCompleted: a job that is not found has completed and been    *)
(* recycled                                                                *)
WaitUtilJobCompleted(c) ==
    /\ at[c] = "wait"
    /\ \/ job[JobOf(c)].phase = "absent"
       \/ IsJobCompleted(job[JobOf(c)])
    /\ Return(c, "ok")
    /\ UNCHANGED <<job, sec, late, lost>>

(* ... or 30 seconds go by, which takes a command that fails, a pod that   *)
(* cannot start or a slow cluster.                                         *)
JobWaitExpires(c) ==
    /\ at[c] = "wait"
    /\ LET j == job[JobOf(c)]
       IN  \/ /\ \/ j.phase = "failed"
                 \/ j.phase = "running" /\ j.pod = "failing"
                 \/ /\ j.phase = "running" /\ j.pod = "created"
                    /\ sec[JobOf(c)] = "absent"
              /\ UNCHANGED faults
           \/ j.phase = "running" /\ JobOneShot("slow")
    /\ GotoJob(c, "list")
    /\ UNCHANGED <<job, sec, late, lost, exist, made>>

(* ListPod, then pods[0] of what may be an empty list *)
ListPods(c) ==
    /\ at[c] = "list"
    /\ IF job[JobOf(c)].pod # "none" \/ op[c] \in late
       THEN GotoJob(c, "delete") ELSE GotoJob(c, "panic")
    /\ UNCHANGED <<job, sec, late, lost, exist, made>>

(* "fall back if err": DeleteJob, by name; its error is logged *)
DeleteJob(c) ==
    /\ at[c] = "delete"
    /\ GotoJob(c, "err")
    /\ IF job[JobOf(c)].phase # "absent"
       THEN RemoveJob(JobOf(c))
       ELSE UNCHANGED <<job, sec, late, lost, exist, made>>

(* A request fails for a reason of its own. *)
JobApiError(c) ==
    /\ JobOneShot("apiError")
    /\ \/ at[c] \in {"get", "create", "secret", "delete"} /\ Return(c, "err")
       \/ at[c] = "wait" /\ GotoJob(c, "delete") /\ UNCHANGED <<exist, made>>
       \/ at[c] = "list" /\ GotoJob(c, "panic") /\ UNCHANGED <<exist, made>>
    /\ UNCHANGED <<job, sec, late, lost>>

VolumeJobStep(c) ==
    /\ \/ /\ \/ GetJob(c) \/ CreateJob(c) \/ JobSecret(c)
             \/ WaitUtilJobCompleted(c) \/ ListPods(c) \/ DeleteJob(c)
          /\ UNCHANGED faults
       \/ JobWaitExpires(c) \/ JobApiError(c)
    /\ UNCHANGED <<dir, op>>

-----------------------------------------------------------------------------
(* The cluster *)

(* getCreateVolumeCmd and getDeleteVolumeCmd *)
Run(cmd) == dir' = (cmd = "createvol")

JobCreatesPod(n) ==
    /\ job[n].phase = "running" /\ job[n].pod = "none"
    /\ job' = [job EXCEPT ![n].pod = "created"]
    /\ UNCHANGED <<sec, late, lost, dir, at, op, exist, made, faults>>

JobPodRuns(n) ==
    /\ job[n].phase = "running" /\ job[n].pod \in {"created", "failing"}
    /\ sec[n] # "absent"
    /\ job' = [job EXCEPT ![n].pod = "done"]
    /\ Run(job[n].cmd)
    /\ UNCHANGED <<sec, late, lost, at, op, exist, made, faults>>

JobCompletes(n) ==
    /\ job[n].phase = "running" /\ job[n].pod = "done"
    /\ job' = [job EXCEPT ![n].phase = "complete"]
    /\ UNCHANGED <<sec, late, lost, dir, at, op, exist, made, faults>>

(* the command fails, and goes on failing when it is restarted *)
JobPodFails(n) ==
    /\ JobOneShot("jobError")
    /\ job[n].phase = "running" /\ job[n].pod = "created" /\ sec[n] # "absent"
    /\ job' = [job EXCEPT ![n].pod = "failing"]
    /\ UNCHANGED <<sec, late, lost, dir, at, op, exist, made>>

(* It has failed more often than the backoffLimit of the job.  With the    *)
(* back-off between restarts that takes minutes: the call that created the *)
(* job is over.                                                            *)
JobFails(n) ==
    /\ job[n].phase = "running" /\ job[n].pod = "failing"
    /\ \A c \in made : JobOf(c) # n
    /\ job' = [job EXCEPT ![n].phase = "failed", ![n].pod = "done"]
    /\ UNCHANGED <<sec, late, lost, dir, at, op, exist, made, faults>>

(* TTLSecondsAfterFinished: a second after it has finished, one way or the *)
(* other                                                                   *)
JobExpires(n) ==
    /\ job[n].phase \in {"complete", "failed"}
    /\ RemoveJob(n)
    /\ UNCHANGED <<dir, at, op, faults>>

JobSecretCollected(n) ==
    /\ sec[n] = "orphaned"
    /\ sec' = [sec EXCEPT ![n] = "absent"]
    /\ UNCHANGED <<job, late, lost, dir, at, op, exist, made, faults>>

LatePodRuns(cmd) ==
    /\ cmd \in late
    /\ JobOneShot("slow")
    /\ late' = late \ {cmd}
    /\ Run(cmd)
    /\ UNCHANGED <<job, sec, lost, at, op, exist, made>>

LatePodKilled(cmd) ==
    /\ cmd \in late
    /\ late' = late \ {cmd}
    /\ UNCHANGED <<job, sec, lost, dir, at, op, exist, made, faults>>

=============================================================================
