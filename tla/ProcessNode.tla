----------------------------- MODULE ProcessNode ----------------------------
(***************************************************************************)
(* NodePublishVolume and NodeUnpublishVolume of a node plugin that mounts  *)
(* by process: one volume, bound to the target paths of its pods.          *)
(*                                                                         *)
(* JUmount unmounts the target and then, if the device had exactly one     *)
(* other mount when it looked, that one as well.                           *)
(***************************************************************************)
EXTENDS ProcessMount

CONSTANT Targets   \* the target paths of the volume, one per pod

(* 0 stands for the mount path, which is none of them. *)
ASSUME TargetAssumption == 0 \notin Targets /\ Nobody \notin Targets

VARIABLES
    bind,     \* bind[t]: what is bound on target t, the topmost last:
              \* devices, and 0 for a directory of the node's disk
    target,   \* target[w]: the target of the call thread w serves
    refs,     \* refs[w]: where else JUmount found the target's device
    asked,    \* asked[t]: the call whose answer kubelet waits for
    vstate    \* vstate[t]: what kubelet knows of the target

vars == <<mountVars, pc, faults, bind, target, refs, asked, vstate>>

Mounts == {0} \cup Targets

StackOf(m) == IF m = 0 THEN base ELSE bind[m]

InUse ==
    starting \cup {d \in Devs : \E m \in Mounts : \E i \in DOMAIN StackOf(m) :
                                   StackOf(m)[i] = d}

Init ==
    /\ ProcessInit
    /\ pc = [w \in Workers |-> "idle"]
    /\ bind = [t \in Targets |-> <<>>]
    /\ target = [w \in Workers |-> Nobody]
    /\ refs = [w \in Workers |-> {}]
    /\ asked = [t \in Targets |-> Nobody]
    /\ vstate = [t \in Targets |-> "none"]

Return(w, answer) ==
    LET t == target[w]
    IN  /\ pc' = [pc EXCEPT ![w] = "idle"]
        /\ target' = [target EXCEPT ![w] = Nobody]
        /\ refs' = [refs EXCEPT ![w] = {}]
        /\ IF asked[t] = w
           THEN /\ asked' = [asked EXCEPT ![t] = Nobody]
                /\ vstate' = [vstate EXCEPT ![t] = answer]
           ELSE UNCHANGED <<asked, vstate>>

Fail(w) == Return(w, "uncertain")

Continue(w, label) ==
    Goto(w, label) /\ UNCHANGED <<target, refs, asked, vstate>>

-----------------------------------------------------------------------------
(* NodePublishVolume *)

CorruptTarget(t) == bind[t] # <<>> /\ Last(bind[t]) \in dead

(* The target is made, which fails when it is corrupt, and the settings    *)
(* are read: a command that may fail.                                      *)
PublishStart(w) ==
    /\ pc[w] = "n_start"
    /\ \/ ~CorruptTarget(target[w]) /\ Continue(w, "j_mount") /\ UNCHANGED faults
       \/ CorruptTarget(target[w]) /\ Fail(w) /\ UNCHANGED faults
       \/ ~CorruptTarget(target[w]) /\ Fail(w) /\ OneShot("format")
    /\ UNCHANGED <<mountVars, bind>>

PublishMount(w) ==
    /\ JMount(w, InUse, Fail(w))
    /\ pc'[w] # "idle" => UNCHANGED <<target, refs, asked, vstate>>
    /\ UNCHANGED <<bind, faults>>

PublishUnmount(w) ==
    /\ JUnmount(w, InUse, Fail(w))
    /\ pc'[w] # "idle" => UNCHANGED <<target, refs, asked, vstate>>
    /\ UNCHANGED <<bind, faults>>

PublishPoll(w) ==
    /\ JPoll(w, "n_vol", Fail(w))
    /\ pc'[w] = "n_vol" => UNCHANGED <<target, refs, asked, vstate>>
    /\ UNCHANGED bind

(* CreateVol makes the directory under whatever the mount path is *)
CreateVol(w) ==
    /\ pc[w] = "n_vol"
    /\ \/ Seen = "corrupt" /\ Fail(w) /\ UNCHANGED localDir
       \/ /\ Seen # "corrupt"
          /\ localDir' = (localDir \/ Seen = "local")
          /\ Continue(w, "n_bind")
    /\ UNCHANGED <<base, starting, dead, bind, faults>>

(* the bind of what is there by now; a source that is not there fails *)
Bind(w) ==
    /\ pc[w] = "n_bind"
    /\ \/ /\ Seen = "juicefs" \/ (Seen = "local" /\ localDir)
          /\ bind' = [bind EXCEPT ![target[w]] =
                        Append(@, IF Seen = "local" THEN 0 ELSE Last(base))]
          /\ Return(w, "published")
       \/ /\ Seen = "corrupt" \/ (Seen = "local" /\ ~localDir)
          /\ Fail(w)
          /\ UNCHANGED bind
    /\ UNCHANGED <<mountVars, faults>>

-----------------------------------------------------------------------------
(* NodeUnpublishVolume, JUmount *)

(* A target that is not mounted is left alone. *)
UmountCheck(w) ==
    /\ pc[w] = "u_check"
    /\ IF bind[target[w]] = <<>> THEN Return(w, "unpublished")
       ELSE Continue(w, "u_refs")
    /\ UNCHANGED <<mountVars, bind, faults>>

(* GetMountDeviceRefs: the other mounts of the device that is topmost on   *)
(* the target.  The disk of the node has many other mounts, so that a      *)
(* directory of it, or a target that was unmounted since the check, has    *)
(* never just one; the empty set stands for that.                          *)
GetMountDeviceRefs(t) ==
    IF bind[t] = <<>> \/ Last(bind[t]) = 0 THEN {}
    ELSE UNION {{<<m, i>> : i \in {j \in DOMAIN StackOf(m) :
                                     StackOf(m)[j] = Last(bind[t])}} :
                m \in Mounts} \ {<<t, Len(bind[t])>>}

FindRefs(w) ==
    /\ pc[w] = "u_refs"
    /\ refs' = [refs EXCEPT ![w] = GetMountDeviceRefs(target[w])]
    /\ Goto(w, "u_target")
    /\ UNCHANGED <<mountVars, bind, faults, target, asked, vstate>>

(* mutant: when one other mount is left, that one is unmounted instead *)
UnmountTarget_Instead(w) ==
    LET t == target[w]
    IN  /\ pc[w] = "u_target"
        /\ bind' = IF bind[t] = <<>> \/ Cardinality(refs[w]) = 1 THEN bind
                   ELSE [bind EXCEPT ![t] = Pop(@)]
        /\ Continue(w, "u_ref")
        /\ UNCHANGED <<mountVars, faults>>

UnmountTarget(w) ==
    LET t == target[w]
    IN  /\ pc[w] = "u_target"
        /\ IF bind[t] = <<>> THEN Return(w, "unpublishing") /\ UNCHANGED bind
           ELSE /\ bind' = [bind EXCEPT ![t] = Pop(@)]
                /\ Continue(w, "u_ref")
        /\ UNCHANGED <<mountVars, faults>>

(* we can only unmount this when only one is left; by its path, and a      *)
(* failure is ignored                                                      *)
UnmountRef(w) ==
    LET one == Cardinality(refs[w]) = 1
        m == (CHOOSE r \in refs[w] : TRUE)[1]
    IN  /\ pc[w] = "u_ref"
        /\ base' = IF one /\ m = 0 /\ base # <<>> THEN Pop(base) ELSE base
        /\ bind' = [t \in Targets |-> IF one /\ m = t /\ bind[t] # <<>>
                                      THEN Pop(bind[t]) ELSE bind[t]]
        /\ Return(w, "unpublished")
        /\ UNCHANGED <<starting, dead, localDir, faults>>

-----------------------------------------------------------------------------
(* kubelet (external): it publishes a target until it succeeds and later   *)
(* unpublishes it until that succeeds                                      *)

Ask(w, t, label, from) ==
    /\ asked[t] = Nobody
    /\ pc[w] = "idle"
    /\ vstate[t] \in from
    /\ asked' = [asked EXCEPT ![t] = w]
    /\ target' = [target EXCEPT ![w] = t]
    /\ Goto(w, label)
    /\ UNCHANGED <<mountVars, faults, bind, refs>>

AskPublish(w, t) ==
    /\ Ask(w, t, "n_start", {"none", "uncertain"})
    /\ vstate' = [vstate EXCEPT ![t] = "uncertain"]

AskUnpublish(w, t) ==
    /\ Ask(w, t, "u_check", {"uncertain", "published", "unpublishing"})
    /\ vstate' = [vstate EXCEPT ![t] = "unpublishing"]

(* the answer comes too late; kubelet asks again *)
CallTimeout(t) ==
    /\ asked[t] # Nobody
    /\ OneShot("callTimeout")
    /\ asked' = [asked EXCEPT ![t] = Nobody]
    /\ UNCHANGED <<mountVars, pc, bind, target, refs, vstate>>

(* a new pod on the same target path *)
Reuse(t) ==
    /\ vstate[t] = "unpublished"
    /\ vstate' = [vstate EXCEPT ![t] = "none"]
    /\ UNCHANGED <<mountVars, pc, faults, bind, target, refs, asked>>

(* the node restarts: mounts, processes and calls are gone, the pods are   *)
(* started anew                                                            *)
Reboot ==
    /\ base' = <<>> /\ starting' = {} /\ dead' = {}
    /\ pc' = [w \in Workers |-> "idle"]
    /\ bind' = [t \in Targets |-> <<>>]
    /\ target' = [w \in Workers |-> Nobody]
    /\ refs' = [w \in Workers |-> {}]
    /\ asked' = [t \in Targets |-> Nobody]
    /\ vstate' = [t \in Targets |-> "none"]
    /\ UNCHANGED <<localDir, faults>>

Process(d) ==
    /\ \/ ProcessMounts(d)
       \/ d \in InUse /\ ProcessDies(d)
    /\ UNCHANGED <<pc, bind, target, refs, asked, vstate>>

Call(w) ==
    \/ PublishStart(w) \/ PublishMount(w) \/ PublishUnmount(w) \/ PublishPoll(w)
    \/ CreateVol(w) \/ Bind(w)
    \/ UmountCheck(w) \/ FindRefs(w) \/ UnmountTarget(w) \/ UnmountRef(w)

Next ==
    \/ \E w \in Workers : Call(w)
    \/ \E w \in Workers, t \in Targets : AskPublish(w, t) \/ AskUnpublish(w, t)
    \/ \E t \in Targets : CallTimeout(t) \/ Reuse(t)
    \/ \E d \in Devs : Process(d)
    \/ Reboot

Spec == Init /\ [][Next]_vars

(* Handlers and processes go on, and kubelet's calls are taken in turn: it *)
(* repeats the publish of a target until the pod starts or is deleted.     *)
FairSpec ==
    /\ Spec
    /\ \A w \in Workers : WF_vars(Call(w))
    /\ \A d \in Devs : WF_vars(ProcessMounts(d) /\ Process(d))
    /\ \A t \in Targets : SF_vars(\E w \in Workers : AskPublish(w, t))

-----------------------------------------------------------------------------
(* The type of every variable. *)
TypeOK ==
    /\ base \in Seq(Devs)
    /\ starting \subseteq Devs
    /\ dead \subseteq Devs
    /\ bind \in [Targets -> Seq(Devs \cup {0})]
    /\ target \in [Workers -> Targets \cup {Nobody}]
    /\ vstate \in [Targets -> {"none", "uncertain", "published",
                               "unpublishing", "unpublished"}]

(* Whatever calls that overlapped left on the mount path, once the calls   *)
(* for other targets have stopped a publish that failed or was not         *)
(* answered succeeds when it is repeated, or kubelet gives the target up,  *)
(* unless the mount path or the target is corrupt.                         *)
PublishAnswered ==
    \A t \in Targets :
        \/ []<>(\E w \in Workers : target[w] \notin {Nobody, t})
        \/ vstate[t] = "uncertain" ~> \/ vstate[t] # "uncertain"
                                      \/ Seen = "corrupt" \/ CorruptTarget(t)
                                      \/ Devs \subseteq InUse

(* The mounts unpublished targets still have. *)
Leftovers ==
    UNION {{<<t, i>> : i \in DOMAIN bind[t]} :
           t \in {u \in Targets : vstate[u] = "unpublished"}}

(* However calls overlap, what unpublished targets still have mounted is   *)
(* what calls nobody waited for bound: JUmount takes one mount off, and    *)
(* every one it leaves is paid for by a lost answer.                       *)
LeftoversBounded == Cardinality(Leftovers) <= faults

-----------------------------------------------------------------------------
(* What the code does not guarantee (README, Known deviations).            *)

(* "we can only unmount this when only one is left since the PVC might be  *)
(* used by more than one container" (JUmount): a target that is published  *)
(* is not unmounted because another one is unpublished.                    *)
PublishedKept ==
    [][\A t \in Targets : vstate[t] = "published" /\ vstate'[t] = "published" =>
          Len(bind'[t]) >= Len(bind[t])]_vars

(* A target kubelet was told is unpublished has nothing mounted on it, and *)
(* one it was told is published shows JuiceFS, not the node's disk.        *)
UnpublishedIsUnmounted ==
    \A t \in Targets : vstate[t] = "unpublished" => bind[t] = <<>>

PublishedShowsJuiceFS ==
    \A t \in Targets : vstate[t] = "published" =>
        bind[t] # <<>> /\ Last(bind[t]) # 0

=============================================================================
