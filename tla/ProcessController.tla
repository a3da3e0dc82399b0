-------------------------- MODULE ProcessController -------------------------
(***************************************************************************)
(* CreateVolume and DeleteVolume of a controller that does not use jobs    *)
(* (FormatInPod is off): JfsCreateVol and JfsDeleteVol format and mount    *)
(* JuiceFS in the controller's own container, make or remove the directory *)
(* of the volume, and unmount it again.  One volume.                       *)
(*                                                                         *)
(* The provisioner repeats a call that failed or was not answered in time; *)
(* the earlier call goes on, on the same mount path.                       *)
(***************************************************************************)
EXTENDS ProcessMount

VARIABLES
    dir,    \* the directory of the volume exists in JuiceFS
    op,     \* op[w]: the call thread w serves
    asked,  \* the call whose answer the provisioner waits for
    want    \* what the provisioner wants, or was told

vars == <<mountVars, pc, faults, dir, op, asked, want>>

InUse == starting \cup {base[i] : i \in DOMAIN base}

Init ==
    /\ ProcessInit
    /\ localDir = FALSE
    /\ pc = [w \in Workers |-> "idle"]
    /\ dir = FALSE
    /\ op = [w \in Workers |-> "none"]
    /\ asked = Nobody
    /\ want = "create"

Return(w, told) ==
    /\ pc' = [pc EXCEPT ![w] = "idle"]
    /\ op' = [op EXCEPT ![w] = "none"]
    /\ IF asked = w
       THEN asked' = Nobody /\ want' = told
       ELSE UNCHANGED <<asked, want>>

Fail(w) == Return(w, want)

Succeed(w) ==
    Return(w, IF op[w] = "create" THEN "created" ELSE "deleted")

Continue(w, label) == Goto(w, label) /\ UNCHANGED <<op, asked, want>>

-----------------------------------------------------------------------------
(* getSettings: AuthFs or ceFormat, a command that may take long or fail *)
GetSettings(w) ==
    /\ pc[w] = "c_format"
    /\ Continue(w, "j_mount") \/ Fail(w)
    /\ UNCHANGED <<mountVars, dir, faults>>

VolMount(w) ==
    /\ JMount(w, InUse, Fail(w))
    /\ pc'[w] # "idle" => UNCHANGED <<op, asked, want>>
    /\ UNCHANGED <<dir, faults>>

VolRemount(w) ==
    /\ JUnmount(w, InUse, Fail(w))
    /\ pc'[w] # "idle" => UNCHANGED <<op, asked, want>>
    /\ UNCHANGED <<dir, faults>>

VolPoll(w) ==
    /\ JPoll(w, "c_vol", Fail(w))
    /\ pc'[w] = "c_vol" => UNCHANGED <<op, asked, want>>
    /\ UNCHANGED dir

(* DeleteVol removes the directory if the mount path has it *)
DeleteVol(w) ==
    /\ pc[w] = "c_vol"
    /\ op[w] = "delete"
    /\ \/ Seen = "corrupt" /\ Fail(w) /\ UNCHANGED <<dir, localDir>>
       \/ /\ Seen # "corrupt"
          /\ dir' = (dir /\ Seen = "local")
          /\ localDir' = (localDir /\ Seen = "juicefs")
          /\ Continue(w, "c_umount")
    /\ UNCHANGED <<base, starting, dead, faults>>

(* CreateVol makes the directory in what the mount path is by now *)
CreateVol(w) ==
    /\ pc[w] = "c_vol"
    /\ op[w] = "create"
    /\ \/ Seen = "corrupt" /\ Fail(w) /\ UNCHANGED <<dir, localDir>>
       \/ /\ Seen # "corrupt"
          /\ dir' = (dir \/ Seen = "juicefs")
          /\ localDir' = (localDir \/ Seen = "local")
          /\ Continue(w, "c_umount")
    /\ UNCHANGED <<base, starting, dead, faults>>

(* mutant: a DeleteVolume leaves the file system mounted *)
VolUnmount_Created(w) ==
    /\ pc[w] = "c_umount"
    /\ IF base = <<>> THEN Fail(w) ELSE Succeed(w)
    /\ base' = IF base = <<>> \/ op[w] = "delete" THEN base ELSE Pop(base)
    /\ UNCHANGED <<starting, dead, localDir, dir, faults>>

VolUnmount(w) ==
    /\ pc[w] = "c_umount"
    /\ IF base = <<>> THEN Fail(w) ELSE Succeed(w)
    /\ base' = IF base = <<>> THEN base ELSE Pop(base)
    /\ UNCHANGED <<starting, dead, localDir, dir, faults>>

-----------------------------------------------------------------------------
(* The provisioner and the container (external) *)

Ask(w) ==
    /\ asked = Nobody
    /\ pc[w] = "idle"
    /\ want \in {"create", "delete"}
    /\ asked' = w
    /\ op' = [op EXCEPT ![w] = want]
    /\ Goto(w, "c_format")
    /\ UNCHANGED <<mountVars, faults, dir, want>>

(* the claim is deleted, or a volume of that name is claimed again *)
Claim ==
    /\ want' = CASE want = "created" -> "delete"
                 [] want = "deleted" -> "create"
                 [] OTHER -> want
    /\ want' # want
    /\ UNCHANGED <<mountVars, pc, faults, dir, op, asked>>

CallTimeout ==
    /\ asked # Nobody
    /\ OneShot("callTimeout")
    /\ asked' = Nobody
    /\ UNCHANGED <<mountVars, pc, dir, op, want>>

(* the container restarts: its mounts, processes and calls are gone *)
Crash ==
    /\ OneShot("crash")
    /\ base' = <<>> /\ starting' = {} /\ dead' = {} /\ localDir' = FALSE
    /\ pc' = [w \in Workers |-> "idle"]
    /\ op' = [w \in Workers |-> "none"]
    /\ asked' = Nobody
    /\ UNCHANGED <<dir, want>>

Process(d) ==
    /\ \/ ProcessMounts(d)
       \/ d \in InUse /\ ProcessDies(d)
    /\ UNCHANGED <<pc, dir, op, asked, want>>

Call(w) ==
    \/ GetSettings(w) \/ VolMount(w) \/ VolRemount(w) \/ VolPoll(w)
    \/ CreateVol(w) \/ DeleteVol(w) \/ VolUnmount(w)

Next ==
    \/ \E w \in Workers : Call(w) \/ Ask(w)
    \/ \E d \in Devs : Process(d)
    \/ Claim \/ CallTimeout \/ Crash

Spec == Init /\ [][Next]_vars

(* Handlers and processes go on; a format that is repeated does not fail   *)
(* for ever, and the provisioner repeats what was not answered.            *)
FairSpec ==
    /\ Spec
    /\ \A w \in Workers : /\ WF_vars(Call(w))
                          /\ SF_vars(GetSettings(w) /\ pc'[w] = "j_mount")
    /\ \A d \in Devs : WF_vars(ProcessMounts(d) /\ Process(d))
    /\ WF_vars(\E w \in Workers : Ask(w))

-----------------------------------------------------------------------------
(* The type of every variable. *)
TypeOK ==
    /\ base \in Seq(Devs)
    /\ starting \subseteq Devs
    /\ dead \subseteq Devs
    /\ op \in [Workers -> {"none", "create", "delete"}]
    /\ want \in {"create", "created", "delete", "deleted"}

(* However a call that was given up and its repetition disturb each other, *)
(* the provisioner's wish is granted in the end, unless a client died with *)
(* the mount path.                                                         *)
Answered ==
    want \in {"create", "delete"} ~> want \in {"created", "deleted"} \/ Seen = "corrupt"

(* Every call unmounts what it mounted: mounts that are left when no call  *)
(* runs are paid for by faults.                                            *)
MountsLeftBounded ==
    (\A w \in Workers : pc[w] = "idle") =>
        Len(base) + Cardinality(starting) <= faults

-----------------------------------------------------------------------------
(* What the code does not guarantee (README, Known deviations).            *)

(* "CreateVolume create directory in an existing JuiceFS filesystem": a    *)
(* volume that was reported has its directory in JuiceFS, not one in the   *)
(* controller's container.                                                 *)
CreatedInJuiceFS == want = "created" => dir

(* A volume DeleteVolume reported has no directory in JuiceFS any more.    *)
DeletedFromJuiceFS == want = "deleted" => ~dir

=============================================================================
