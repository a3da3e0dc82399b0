-------------------------- MODULE ControllerProofs --------------------------
(***************************************************************************)
(* Proofs about Controller, for any number of handler threads and faults.  *)
(***************************************************************************)
EXTENDS Controller, TLAPS

(* The directory is what the command of a job of kind k leaves. *)
Effect(k) == dir = (k = "createvol")

(* What a job of kind k and the calls that wait for it stand for: a job    *)
(* that has run has had its effect, and so has one that a waiting call     *)
(* does not find any more, or whose call has succeeded.                    *)
EffectInv(k) ==
    /\ \/ job[k].phase = "complete"
       \/ job[k].phase = "running" /\ job[k].pod = "done"
       => Effect(k)
    /\ \A c \in Callers : (op[c] = k /\ at[c] \in {"secret", "wait"}) =>
          Effect(k) \/ job[k].phase \in {"running", "failed"}
    /\ \A c \in Callers : (op[c] = k /\ at[c] = "ok") => Effect(k)

(* Pods outlive their job only when it is removed before it completed. *)
LateInv ==
    /\ \A n \in Kinds : job[n].phase = "complete" => job[n].pod = "done"
    /\ ~lost => late = {}

(* Nothing is deleted before the claim is. *)
CreateInv ==
    prov \in {"provisioning", "bound"} =>
        /\ \A c \in Callers : op[c] = "createvol"
        /\ job["delvol"].phase = "absent"
        /\ "delvol" \notin late
        /\ ~lost => EffectInv("createvol") /\ (prov = "bound" => dir)

(* While no call was given up, the one thread that runs is the one the     *)
(* provisioner waits for; what creates is over when the claim is bound.    *)
DeleteInv ==
    ~givenUp =>
        /\ \A c \in Callers : at[c] # "idle" => call = c
        /\ prov \in {"bound", "deleted"} => \A c \in Callers : at[c] = "idle"
        /\ prov = "deleting" =>
              \A c \in Callers : at[c] # "idle" => op[c] = "delvol"
        /\ ~lost =>
              /\ \/ prov # "provisioning"
                 \/ \E c \in Callers : at[c] = "ok" /\ op[c] = "createvol"
                 => job["createvol"].phase \in {"absent", "complete"}
              /\ prov \in {"deleting", "deleted"} => EffectInv("delvol")
              /\ prov = "deleted" => ~dir

(* The provisioner waits for a call of the kind it needs. *)
CallInv ==
    call # NoCall =>
        /\ at[call] # "idle"
        /\ \/ prov = "provisioning" /\ op[call] = "createvol"
           \/ prov = "deleting" /\ op[call] = "delvol"

(* The inductive invariant. *)
IInv == TypeOK /\ LateInv /\ CallInv /\ CreateInv /\ DeleteInv

(* Every step of JCreateVolume and JDeleteVolume keeps the invariant. *)
LEMMA HandlerPreserves ==
    ASSUME IInv, NEW c \in Callers, Handler(c)
    PROVE  IInv'
<1> USE DEF TypeOK, JobTypes, Job, CallLabels, Kinds, JobOf, JobName
<1>0. /\ IInv /\ op[c] \in Kinds
      /\ UNCHANGED <<dir, op, vols, prov, call, givenUp>>
  BY DEF Handler, VolumeJobStep, IInv
<1>1. ASSUME GetJob(c), UNCHANGED faults PROVE IInv'
  <2>1. TypeOK'
    BY <1>0, <1>1 DEF GetJob, GotoJob, IInv
  <2>2. LateInv' /\ CallInv'
    BY <1>0, <1>1 DEF GetJob, GotoJob, IInv, LateInv, CallInv
  <2>3. CreateInv'
    BY <1>0, <1>1 DEF GetJob, GotoJob, IInv, CreateInv, EffectInv, Effect,
       LateInv
  <2>4. DeleteInv'
    BY <1>0, <1>1 DEF GetJob, GotoJob, IInv, DeleteInv, EffectInv, Effect,
       LateInv
  <2>5. QED
    BY <2>1, <2>2, <2>3, <2>4 DEF IInv
<1>2. ASSUME CreateJob(c), UNCHANGED faults PROVE IInv'
  <2>1. TypeOK'
    BY <1>0, <1>2 DEF CreateJob, NewJob, Return, GotoJob, IInv
  <2>2. LateInv' /\ CallInv'
    BY <1>0, <1>2 DEF CreateJob, NewJob, Return, GotoJob, IInv, LateInv,
       CallInv
  <2>3. CreateInv'
    BY <1>0, <1>2 DEF CreateJob, NewJob, Return, GotoJob, IInv, CreateInv,
       EffectInv, Effect, LateInv
  <2>4. DeleteInv'
    BY <1>0, <1>2 DEF CreateJob, NewJob, Return, GotoJob, IInv, DeleteInv,
       EffectInv, Effect, LateInv
  <2>5. QED
    BY <2>1, <2>2, <2>3, <2>4 DEF IInv
<1>3. ASSUME JobSecret(c), UNCHANGED faults PROVE IInv'
  <2>1. TypeOK'
    BY <1>0, <1>3 DEF JobSecret, CreateOrUpdateSecret, Secret, Return,
       GotoJob, IInv
  <2>2. LateInv' /\ CallInv'
    BY <1>0, <1>3 DEF JobSecret, CreateOrUpdateSecret, Secret, Return,
       GotoJob, IInv, LateInv, CallInv
  <2>3. CreateInv'
    BY <1>0, <1>3 DEF JobSecret, CreateOrUpdateSecret, Secret, Return,
       GotoJob, IInv, CreateInv, EffectInv, Effect, LateInv
  <2>4. DeleteInv'
    BY <1>0, <1>3 DEF JobSecret, CreateOrUpdateSecret, Secret, Return,
       GotoJob, IInv, DeleteInv, EffectInv, Effect, LateInv
  <2>5. QED
    BY <2>1, <2>2, <2>3, <2>4 DEF IInv
<1>4. ASSUME WaitUtilJobCompleted(c), UNCHANGED faults PROVE IInv'
  <2>1. TypeOK'
    BY <1>0, <1>4 DEF WaitUtilJobCompleted, IsJobCompleted, Return, GotoJob,
       IInv
  <2>2. LateInv' /\ CallInv'
    BY <1>0, <1>4 DEF WaitUtilJobCompleted, IsJobCompleted, Return, GotoJob,
       IInv, LateInv, CallInv
  <2>3. CreateInv'
    BY <1>0, <1>4 DEF WaitUtilJobCompleted, IsJobCompleted, Return, GotoJob,
       IInv, CreateInv, EffectInv, Effect, LateInv
  <2>4. DeleteInv'
    BY <1>0, <1>4 DEF WaitUtilJobCompleted, IsJobCompleted, Return, GotoJob,
       IInv, DeleteInv, EffectInv, Effect, LateInv
  <2>5. QED
    BY <2>1, <2>2, <2>3, <2>4 DEF IInv
<1>5. ASSUME ListPods(c), UNCHANGED faults PROVE IInv'
  <2>1. TypeOK'
    BY <1>0, <1>5 DEF ListPods, GotoJob, IInv
  <2>2. LateInv' /\ CallInv'
    BY <1>0, <1>5 DEF ListPods, GotoJob, IInv, LateInv, CallInv
  <2>3. CreateInv'
    BY <1>0, <1>5 DEF ListPods, GotoJob, IInv, CreateInv, EffectInv, Effect,
       LateInv
  <2>4. DeleteInv'
    BY <1>0, <1>5 DEF ListPods, GotoJob, IInv, DeleteInv, EffectInv, Effect,
       LateInv
  <2>5. QED
    BY <2>1, <2>2, <2>3, <2>4 DEF IInv
<1>6. ASSUME DeleteJob(c), UNCHANGED faults PROVE IInv'
  <2>1. at[c] = "delete" /\ at' = [at EXCEPT ![c] = "err"]
    BY <1>6 DEF DeleteJob, GotoJob
  <2>2. CASE UNCHANGED <<job, sec, late, lost, exist, made>>
    <3>1. TypeOK'
      BY <1>0, <1>6, <2>1, <2>2 DEF IInv
    <3>2. LateInv' /\ CallInv'
      BY <1>0, <2>1, <2>2 DEF IInv, LateInv, CallInv
    <3>3. CreateInv'
      BY <1>0, <2>1, <2>2 DEF IInv, CreateInv, EffectInv, Effect
    <3>4. DeleteInv'
      BY <1>0, <2>1, <2>2 DEF IInv, DeleteInv, EffectInv, Effect
    <3>5. QED
      BY <3>1, <3>2, <3>3, <3>4 DEF IInv
  <2>3. ASSUME NEW n \in Kinds, job[n].phase # "absent", RemoveJob(n)
        PROVE  IInv'
    <3>1. TypeOK'
      <4>1. job' \in [Kinds -> Job] /\ sec' \in [Kinds -> Secret]
        BY <1>0, <2>3 DEF RemoveJob, NoJob, WithoutOwner, Secret, IInv
      <4>2. \A k \in Kinds : job'[k].phase # "absent" => job'[k].cmd = k
        BY <1>0, <2>3 DEF RemoveJob, NoJob, IInv
      <4>3. late' \subseteq Kinds /\ lost' \in BOOLEAN
        BY <1>0, <2>3 DEF RemoveJob, IInv
      <4>4. exist' \subseteq Callers /\ made' \subseteq exist'
        BY <1>0, <2>3 DEF RemoveJob, IInv
      <4>5. at' \in [Callers -> CallLabels]
        BY <1>0, <2>1 DEF IInv
      <4>6. QED
        BY <1>0, <1>6, <4>1, <4>2, <4>3, <4>4, <4>5 DEF IInv
    <3>2. LateInv' /\ CallInv'
      BY <1>0, <2>1, <2>3 DEF RemoveJob, NoJob, IInv, LateInv, CallInv
    <3>3. CreateInv'
      <4>1. SUFFICES ASSUME prov \in {"provisioning", "bound"}
                     PROVE  CreateInv'
        BY <1>0 DEF CreateInv
      <4>2. /\ \A d \in Callers : op'[d] = "createvol"
            /\ job'["delvol"].phase = "absent" /\ "delvol" \notin late'
        BY <1>0, <2>3, <4>1 DEF RemoveJob, NoJob, IInv, CreateInv
      <4>3. ~lost' => ~lost /\ job[n].phase = "complete"
        BY <2>3 DEF RemoveJob
      <4>4. ~lost' => EffectInv("createvol")'
        BY <1>0, <2>1, <2>3, <4>1, <4>3 DEF RemoveJob, NoJob, IInv,
           CreateInv, EffectInv, Effect
      <4>5. ~lost' => (prov' = "bound" => dir')
        BY <1>0, <4>1, <4>3 DEF IInv, CreateInv
      <4>6. QED
        BY <4>2, <4>4, <4>5 DEF CreateInv
    <3>4. DeleteInv'
      BY <1>0, <2>1, <2>3 DEF RemoveJob, NoJob, IInv, DeleteInv, EffectInv,
         Effect, LateInv
    <3>5. QED
      BY <3>1, <3>2, <3>3, <3>4 DEF IInv
  <2>4. QED
    BY <1>0, <1>6, <2>2, <2>3 DEF DeleteJob
<1>7. ASSUME JobWaitExpires(c) PROVE IInv'
  <2>1. TypeOK'
    BY <1>0, <1>7, JobAssumption DEF JobWaitExpires, JobOneShot, GotoJob,
       IInv
  <2>2. LateInv' /\ CallInv'
    BY <1>0, <1>7 DEF JobWaitExpires, JobOneShot, GotoJob, IInv, LateInv,
       CallInv
  <2>3. CreateInv'
    BY <1>0, <1>7 DEF JobWaitExpires, JobOneShot, GotoJob, IInv, CreateInv,
       EffectInv, Effect, LateInv
  <2>4. DeleteInv'
    BY <1>0, <1>7 DEF JobWaitExpires, JobOneShot, GotoJob, IInv, DeleteInv,
       EffectInv, Effect, LateInv
  <2>5. QED
    BY <2>1, <2>2, <2>3, <2>4 DEF IInv
<1>8. ASSUME JobApiError(c) PROVE IInv'
  <2>1. TypeOK'
    BY <1>0, <1>8, JobAssumption DEF JobApiError, JobOneShot, Return,
       GotoJob, IInv
  <2>2. LateInv' /\ CallInv'
    BY <1>0, <1>8 DEF JobApiError, JobOneShot, Return, GotoJob, IInv,
       LateInv, CallInv
  <2>3. CreateInv'
    BY <1>0, <1>8 DEF JobApiError, JobOneShot, Return, GotoJob, IInv,
       CreateInv, EffectInv, Effect, LateInv
  <2>4. DeleteInv'
    BY <1>0, <1>8 DEF JobApiError, JobOneShot, Return, GotoJob, IInv,
       DeleteInv, EffectInv, Effect, LateInv
  <2>5. QED
    BY <2>1, <2>2, <2>3, <2>4 DEF IInv
<1>9. QED
  BY <1>1, <1>2, <1>3, <1>4, <1>5, <1>6, <1>7, <1>8 DEF Handler,
     VolumeJobStep

(* So does everything the job, TTL and garbage collection controllers and  *)
(* the pods of the jobs do.                                                *)
LEMMA JobPreserves ==
    ASSUME IInv, NEW n \in Kinds,
           \/ JobRuns(n) \/ CleanUp(n)
           \/ /\ JobPodFails(n) \/ JobFails(n) \/ LatePodRuns(n)
              /\ UNCHANGED <<vols, prov, call, givenUp>>
    PROVE  IInv'
<1> USE DEF TypeOK, JobTypes, Job, CallLabels, Kinds, JobOf, JobName
<1>0. IInv /\ UNCHANGED <<op, at, vols, prov, call, givenUp>>
  BY DEF JobRuns, CleanUp, JobCreatesPod, JobPodRuns, JobCompletes,
     JobExpires, JobSecretCollected, LatePodKilled, JobPodFails, JobFails,
     LatePodRuns
<1>1. ASSUME JobCreatesPod(n) PROVE IInv'
  <2>1. TypeOK'
    BY <1>0, <1>1 DEF JobCreatesPod, IInv
  <2>2. LateInv' /\ CallInv'
    BY <1>0, <1>1 DEF JobCreatesPod, IInv, LateInv, CallInv
  <2>3. CreateInv'
    BY <1>0, <1>1 DEF JobCreatesPod, IInv, CreateInv, EffectInv, Effect,
       LateInv
  <2>4. DeleteInv'
    BY <1>0, <1>1 DEF JobCreatesPod, IInv, DeleteInv, EffectInv, Effect,
       LateInv
  <2>5. QED
    BY <2>1, <2>2, <2>3, <2>4 DEF IInv
<1>2. ASSUME JobPodRuns(n) PROVE IInv'
  <2>1. TypeOK'
    BY <1>0, <1>2 DEF JobPodRuns, Run, IInv
  <2>2. LateInv' /\ CallInv'
    BY <1>0, <1>2 DEF JobPodRuns, Run, IInv, LateInv, CallInv
  <2>3. CreateInv'
    BY <1>0, <1>2 DEF JobPodRuns, Run, IInv, CreateInv, EffectInv, Effect,
       LateInv
  <2>4. DeleteInv'
    BY <1>0, <1>2 DEF JobPodRuns, Run, IInv, DeleteInv, EffectInv, Effect,
       LateInv
  <2>5. QED
    BY <2>1, <2>2, <2>3, <2>4 DEF IInv
<1>3. ASSUME JobCompletes(n) PROVE IInv'
  <2>1. TypeOK'
    BY <1>0, <1>3 DEF JobCompletes, IInv
  <2>2. LateInv' /\ CallInv'
    BY <1>0, <1>3 DEF JobCompletes, IInv, LateInv, CallInv
  <2>3. CreateInv'
    BY <1>0, <1>3 DEF JobCompletes, IInv, CreateInv, EffectInv, Effect,
       LateInv
  <2>4. DeleteInv'
    BY <1>0, <1>3 DEF JobCompletes, IInv, DeleteInv, EffectInv, Effect,
       LateInv
  <2>5. QED
    BY <2>1, <2>2, <2>3, <2>4 DEF IInv
<1>4. ASSUME JobExpires(n) PROVE IInv'
  <2>1. TypeOK'
    BY <1>0, <1>4 DEF JobExpires, RemoveJob, NoJob, WithoutOwner, Secret,
       IInv
  <2>2. LateInv' /\ CallInv'
    BY <1>0, <1>4 DEF JobExpires, RemoveJob, NoJob, WithoutOwner, Secret,
       IInv, LateInv, CallInv
  <2>3. CreateInv'
    BY <1>0, <1>4 DEF JobExpires, RemoveJob, NoJob, WithoutOwner, Secret,
       IInv, CreateInv, EffectInv, Effect, LateInv
  <2>4. DeleteInv'
    BY <1>0, <1>4 DEF JobExpires, RemoveJob, NoJob, WithoutOwner, Secret,
       IInv, DeleteInv, EffectInv, Effect, LateInv
  <2>5. QED
    BY <2>1, <2>2, <2>3, <2>4 DEF IInv
<1>5. ASSUME JobSecretCollected(n) PROVE IInv'
  <2>1. TypeOK'
    BY <1>0, <1>5 DEF JobSecretCollected, Secret, IInv
  <2>2. LateInv' /\ CallInv'
    BY <1>0, <1>5 DEF JobSecretCollected, Secret, IInv, LateInv, CallInv
  <2>3. CreateInv'
    BY <1>0, <1>5 DEF JobSecretCollected, Secret, IInv, CreateInv,
       EffectInv, Effect, LateInv
  <2>4. DeleteInv'
    BY <1>0, <1>5 DEF JobSecretCollected, Secret, IInv, DeleteInv,
       EffectInv, Effect, LateInv
  <2>5. QED
    BY <2>1, <2>2, <2>3, <2>4 DEF IInv
<1>6. ASSUME LatePodKilled(n) PROVE IInv'
  <2>1. TypeOK'
    BY <1>0, <1>6 DEF LatePodKilled, IInv
  <2>2. LateInv' /\ CallInv'
    BY <1>0, <1>6 DEF LatePodKilled, IInv, LateInv, CallInv
  <2>3. CreateInv'
    BY <1>0, <1>6 DEF LatePodKilled, IInv, CreateInv, EffectInv, Effect,
       LateInv
  <2>4. DeleteInv'
    BY <1>0, <1>6 DEF LatePodKilled, IInv, DeleteInv, EffectInv, Effect,
       LateInv
  <2>5. QED
    BY <2>1, <2>2, <2>3, <2>4 DEF IInv
<1>7. ASSUME JobPodFails(n) PROVE IInv'
  <2>1. TypeOK'
    BY <1>0, <1>7, JobAssumption DEF JobPodFails, JobOneShot, IInv
  <2>2. LateInv' /\ CallInv'
    BY <1>0, <1>7 DEF JobPodFails, JobOneShot, IInv, LateInv, CallInv
  <2>3. CreateInv'
    BY <1>0, <1>7 DEF JobPodFails, JobOneShot, IInv, CreateInv, EffectInv,
       Effect, LateInv
  <2>4. DeleteInv'
    BY <1>0, <1>7 DEF JobPodFails, JobOneShot, IInv, DeleteInv, EffectInv,
       Effect, LateInv
  <2>5. QED
    BY <2>1, <2>2, <2>3, <2>4 DEF IInv
<1>8. ASSUME JobFails(n) PROVE IInv'
  <2>1. TypeOK'
    BY <1>0, <1>8 DEF JobFails, IInv
  <2>2. LateInv' /\ CallInv'
    BY <1>0, <1>8 DEF JobFails, IInv, LateInv, CallInv
  <2>3. CreateInv'
    BY <1>0, <1>8 DEF JobFails, IInv, CreateInv, EffectInv, Effect, LateInv
  <2>4. DeleteInv'
    BY <1>0, <1>8 DEF JobFails, IInv, DeleteInv, EffectInv, Effect, LateInv
  <2>5. QED
    BY <2>1, <2>2, <2>3, <2>4 DEF IInv
<1>9. ASSUME LatePodRuns(n) PROVE IInv'
  <2>1. TypeOK'
    BY <1>0, <1>9, JobAssumption DEF LatePodRuns, JobOneShot, Run, IInv
  <2>2. LateInv' /\ CallInv'
    BY <1>0, <1>9 DEF LatePodRuns, JobOneShot, Run, IInv, LateInv, CallInv
  <2>3. CreateInv'
    BY <1>0, <1>9 DEF LatePodRuns, JobOneShot, Run, IInv, CreateInv,
       EffectInv, Effect, LateInv
  <2>4. DeleteInv'
    BY <1>0, <1>9 DEF LatePodRuns, JobOneShot, Run, IInv, DeleteInv,
       EffectInv, Effect, LateInv
  <2>5. QED
    BY <2>1, <2>2, <2>3, <2>4 DEF IInv
<1>10. QED
  BY <1>1, <1>2, <1>3, <1>4, <1>5, <1>6, <1>7, <1>8, <1>9 DEF JobRuns,
     CleanUp

(* And the calls of the provisioner, their answers, and restarts. *)
LEMMA CallPreserves ==
    ASSUME IInv,
           \/ \E c \in Callers : Call(c) \/ ReturnCall(c)
           \/ CallTimeout \/ ReleaseVolume \/ Crash \/ Panic
    PROVE  IInv'
<1> USE CallAssumption DEF TypeOK, JobTypes, Job, CallLabels, Kinds
<1>1. ASSUME NEW c \in Callers, CreateVolume(c) PROVE IInv'
  <2>1. TypeOK'
    BY <1>1 DEF CreateVolume, StartCall, GotoJob, IInv
  <2>2. LateInv' /\ CallInv'
    BY <1>1 DEF CreateVolume, StartCall, GotoJob, IInv, LateInv, CallInv
  <2>3. CreateInv'
    BY <1>1 DEF CreateVolume, StartCall, GotoJob, IInv, CreateInv,
       EffectInv, Effect, LateInv
  <2>4. DeleteInv'
    BY <1>1 DEF CreateVolume, StartCall, GotoJob, IInv, DeleteInv,
       EffectInv, Effect, LateInv
  <2>5. QED
    BY <2>1, <2>2, <2>3, <2>4 DEF IInv
<1>2. ASSUME NEW c \in Callers, DeleteVolume(c) PROVE IInv'
  <2>1. TypeOK'
    BY <1>2 DEF DeleteVolume, StartCall, GotoJob, IInv
  <2>2. LateInv' /\ CallInv'
    BY <1>2 DEF DeleteVolume, StartCall, GotoJob, IInv, LateInv, CallInv
  <2>3. CreateInv'
    BY <1>2 DEF DeleteVolume, StartCall, GotoJob, IInv, CreateInv,
       EffectInv, Effect, LateInv
  <2>4. DeleteInv'
    BY <1>2 DEF DeleteVolume, StartCall, GotoJob, IInv, DeleteInv,
       EffectInv, Effect, LateInv
  <2>5. QED
    BY <2>1, <2>2, <2>3, <2>4 DEF IInv
<1>3. ASSUME NEW c \in Callers, ReturnCall(c) PROVE IInv'
  <2>1. TypeOK'
    BY <1>3 DEF ReturnCall, ProvAfter, GotoJob, IInv
  <2>2. LateInv' /\ CallInv'
    BY <1>3 DEF ReturnCall, ProvAfter, GotoJob, IInv, LateInv, CallInv
  <2>3. CreateInv'
    <3>1. CASE prov' \in {"provisioning", "bound"}
      <4>1. prov \in {"provisioning", "bound"} /\ op[c] = "createvol"
        BY <1>3, <3>1 DEF ReturnCall, ProvAfter, IInv, CallInv, CreateInv
      <4>2. ~lost => EffectInv("createvol")'
        BY <1>3, <4>1 DEF ReturnCall, GotoJob, IInv, CreateInv, EffectInv,
           Effect
      <4>3. ~lost => (prov' = "bound" => dir)
        BY <1>3, <4>1 DEF ReturnCall, ProvAfter, IInv, CreateInv, EffectInv,
           Effect
      <4>4. QED
        BY <1>3, <4>1, <4>2, <4>3 DEF ReturnCall, IInv, CreateInv
    <3>2. QED
      BY <3>1 DEF CreateInv
  <2>4. DeleteInv'
    <3>1. CASE ~givenUp /\ prov = "provisioning"
      BY <1>3, <3>1 DEF ReturnCall, ProvAfter, GotoJob, IInv, CallInv,
         CreateInv, DeleteInv, EffectInv, Effect
    <3>2. CASE ~givenUp /\ prov # "provisioning"
      BY <1>3, <3>2 DEF ReturnCall, ProvAfter, GotoJob, IInv, CallInv,
         DeleteInv, EffectInv, Effect
    <3>3. QED
      BY <1>3, <3>1, <3>2 DEF ReturnCall, DeleteInv
  <2>5. QED
    BY <2>1, <2>2, <2>3, <2>4 DEF IInv
<1>4. ASSUME CallTimeout PROVE IInv'
  <2>1. TypeOK'
    BY <1>4, JobAssumption DEF CallTimeout, JobOneShot, IInv
  <2>2. LateInv' /\ CallInv'
    BY <1>4 DEF CallTimeout, JobOneShot, IInv, LateInv, CallInv
  <2>3. CreateInv'
    BY <1>4 DEF CallTimeout, JobOneShot, IInv, CreateInv, EffectInv, Effect,
       LateInv
  <2>4. DeleteInv'
    BY <1>4 DEF CallTimeout, JobOneShot, IInv, DeleteInv, EffectInv, Effect,
       LateInv
  <2>5. QED
    BY <2>1, <2>2, <2>3, <2>4 DEF IInv
<1>5. ASSUME ReleaseVolume PROVE IInv'
  <2>1. TypeOK'
    BY <1>5 DEF ReleaseVolume, jobVars, IInv
  <2>2. LateInv' /\ CallInv'
    BY <1>5 DEF ReleaseVolume, jobVars, IInv, LateInv, CallInv
  <2>3. CreateInv'
    BY <1>5 DEF ReleaseVolume, jobVars, IInv, CreateInv, EffectInv, Effect,
       LateInv
  <2>4. DeleteInv'
    BY <1>5 DEF ReleaseVolume, jobVars, IInv, CreateInv, DeleteInv,
       EffectInv, Effect
  <2>5. QED
    BY <2>1, <2>2, <2>3, <2>4 DEF IInv
<1>6. ASSUME Crash \/ Panic PROVE IInv'
  <2>1. TypeOK'
    <3>1. Restart /\ faults' \in 0..MaxFaults
      BY <1>6, JobAssumption DEF Crash, Panic, JobOneShot, IInv
    <3>2. QED
      BY <3>1 DEF Restart, IInv
  <2>2. LateInv' /\ CallInv'
    BY <1>6 DEF Crash, Panic, Restart, JobOneShot, IInv, LateInv, CallInv
  <2>3. CreateInv'
    BY <1>6 DEF Crash, Panic, Restart, JobOneShot, IInv, CreateInv,
       EffectInv, Effect, LateInv
  <2>4. DeleteInv'
    BY <1>6 DEF Crash, Panic, Restart, JobOneShot, IInv, DeleteInv,
       EffectInv, Effect, LateInv
  <2>5. QED
    BY <2>1, <2>2, <2>3, <2>4 DEF IInv
<1>7. QED
  BY <1>1, <1>2, <1>3, <1>4, <1>5, <1>6 DEF Call

LEMMA InitInv == Init => IInv
<1> SUFFICES ASSUME Init PROVE IInv
  OBVIOUS
<1> USE DEF Init
<1>1. TypeOK
  <2>1. NoJob \in Job
    BY DEF NoJob, Job, Kinds
  <2>2. job \in [Kinds -> Job] /\ \A n \in Kinds : job[n].phase = "absent"
    BY <2>1 DEF NoJob
  <2>3. JobTypes
    <3>1. faults \in 0..MaxFaults
      BY JobAssumption
    <3>2. QED
      BY <2>2, <3>1 DEF JobTypes, Kinds, Secret, CallLabels
  <2>4. QED
    BY <2>3 DEF TypeOK
<1>2. LateInv /\ CallInv
  BY DEF LateInv, CallInv, NoJob
<1>3. CreateInv /\ DeleteInv
  BY DEF CreateInv, DeleteInv, EffectInv, Effect, NoJob, Kinds
<1>4. QED
  BY <1>1, <1>2, <1>3 DEF IInv

LEMMA StepPreserves == IInv /\ [Next]_vars => IInv'
<1>1. ASSUME IInv, UNCHANGED vars PROVE IInv'
  BY <1>1 DEF vars, jobVars, IInv, TypeOK, JobTypes, LateInv, CallInv,
     CreateInv, DeleteInv, EffectInv, Effect
<1>2. QED
  BY <1>1, HandlerPreserves, JobPreserves, CallPreserves DEF Next

(* The inductive invariant holds in every reachable state. *)
THEOREM Invariance == Spec => []IInv
BY InitInv, StepPreserves, PTL DEF Spec

(* Every variable keeps its type. *)
THEOREM TypeCorrect == Spec => []TypeOK
<1>1. IInv => TypeOK
  BY DEF IInv
<1>2. QED
  BY <1>1, Invariance, PTL

(* A volume is reported as created without its directory only if a job was *)
(* removed that had not completed, however many threads work on the job,   *)
(* and however often calls are given up and the controller restarts.       *)
THEOREM ProvisionedUnlessLostHolds == Spec => []ProvisionedUnlessLost
<1>1. IInv => ProvisionedUnlessLost
  BY DEF IInv, CreateInv, ProvisionedUnlessLost
<1>2. QED
  BY <1>1, Invariance, PTL

(* The directory of a volume reported as deleted is gone and stays away,   *)
(* unless a job was lost or a call was given up before.                    *)
THEOREM DeletedUnlessLostHolds == Spec => []DeletedUnlessLost
<1>1. IInv => DeletedUnlessLost
  BY DEF IInv, DeleteInv, DeletedUnlessLost
<1>2. QED
  BY <1>1, Invariance, PTL

=============================================================================
