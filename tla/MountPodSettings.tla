-------------------------- MODULE MountPodSettings --------------------------
(***************************************************************************)
(* The settings of the mount pods of a node over time.  Volumes are        *)
(* published and unpublished while their owners replace their secrets by   *)
(* any others; the first publish of a volume builds its mount pod, later   *)
(* ones share it and only write the secret again.  That secret may outlive *)
(* its pod and be used by the next one, although its owner is gone.  A     *)
(* publish is one step here: its interleavings are the subject of          *)
(* MountPod.                                                               *)
(***************************************************************************)
EXTENDS Settings

Owned == INSTANCE OwnedSecret

CONSTANTS
    Volumes, Targets,
    None,          \* no pod, no secret, no publication
    SecretSets,    \* the secrets a volume may be given
    VolCtxs,       \* the attributes a volume may have
    FlagSets,      \* the mount options a volume may have
    Quantities,    \* the texts that parse as a quantity
    Defaults,      \* resources of the plugin's container, None when unset
    ReadOnly       \* the ways a volume is published: read-only or not

Kinds == {"Limits", "Requests"}

VARIABLES
    secrets,      \* secrets[v]: the secret of the volume, by its owner
    volCtx,       \* volCtx[v]: its attributes
    flags,        \* flags[v]: its mount options
    resource,     \* config.ContainerResource: a map or None, per kind
    pod,          \* pod[v]: its mount pod, as it was created, or None
    data,         \* data[v]: the data of that pod's secret, or None
    owner,        \* owner[v]: whether that secret is there and owned
    published,    \* published[t]: [vol, ro] or None
    made,         \* history, made[v]: the secrets the pod was built from
    wrote         \* history, wrote[v]: those written to its secret since
                  \* the secret was created

volume == <<secrets, volCtx, flags>>
history == <<made, wrote>>
vars == <<volume, resource, pod, data, owner, published, history>>

Init ==
    /\ secrets \in [Volumes -> SecretSets]
    /\ volCtx \in [Volumes -> VolCtxs]
    /\ flags \in [Volumes -> FlagSets]
    /\ resource = Defaults
    /\ pod = [v \in Volumes |-> None]
    /\ data = [v \in Volumes |-> None]
    /\ owner = [v \in Volumes |-> "absent"]
    /\ published = [t \in Targets |-> None]
    /\ made = [v \in Volumes |-> None]
    /\ wrote = [v \in Volumes |-> {}]

Users(v) == {t \in Targets : published[t] # None /\ published[t].vol = v}

-----------------------------------------------------------------------------
(* parsePodResources *)
AttributeOf ==
    [Limits   |-> [cpu |-> "mount-cpu-limit", memory |-> "mount-memory-limit"],
     Requests |-> [cpu |-> "mount-cpu-request",
                   memory |-> "mount-memory-request"]]

(* what the attributes of the volume say *)
Asked(ctx, kind) ==
    LET attribute == AttributeOf[kind]
    IN  [r \in {r \in DOMAIN attribute : Val(ctx, attribute[r]) # ""} |->
            ctx[attribute[r]]]

(* MustParse panics *)
BadQuantity(ctx) ==
    \E kind \in Kinds : \E r \in DOMAIN Asked(ctx, kind) :
        Asked(ctx, kind)[r] \notin Quantities

ParsePodResources(ctx) ==
    [kind \in Kinds |-> Over(IF resource[kind] = None THEN EmptyMap
                             ELSE resource[kind], Asked(ctx, kind))]

(* the plugin's own maps, if it has any, are the ones written to *)
ResourceAfter(built) ==
    [kind \in Kinds |-> IF resource[kind] = None THEN None ELSE built[kind]]

-----------------------------------------------------------------------------
SettingOf(v, ro) ==
    GetSettings(secrets[v], volCtx[v],
                flags[v] \cup (IF ro THEN {"ro"} ELSE {}))

(* mutant: the data of the secret is replaced *)
CreateOrUpdateSecret_Replace(v, s) ==
    /\ data' = [data EXCEPT ![v] = NewSecret(s)]
    /\ owner' = [owner EXCEPT ![v] = Owned!CreateOrUpdateSecret(@, TRUE)]
    /\ wrote' = [wrote EXCEPT ![v] = @ \cup {secrets[v]}]

(* createOrUpdateSecret: StringData goes over the data that is there, and  *)
(* the owner stays what it is, gone or not.                                *)
CreateOrUpdateSecret(v, s) ==
    /\ data' = [data EXCEPT ![v] =
                   IF @ = None THEN NewSecret(s) ELSE Over(@, NewSecret(s))]
    /\ owner' = [owner EXCEPT ![v] = Owned!CreateOrUpdateSecret(@, TRUE)]
    /\ wrote' = [wrote EXCEPT ![v] = @ \cup {secrets[v]}]

(* createOrAddRef for a volume that has no mount pod ... *)
CreatePod(v, s) ==
    /\ pod[v] = None
    /\ ~BadQuantity(s.volCtx)
    /\ LET built == ParsePodResources(s.volCtx)
       IN  /\ pod' = [pod EXCEPT ![v] = NewMountPod(s, built)]
           /\ resource' = ResourceAfter(built)
    /\ made' = [made EXCEPT ![v] = secrets[v]]
    /\ CreateOrUpdateSecret(v, s)

(* ... and for one that has *)
AddRef(v, s) ==
    /\ pod[v] # None
    /\ CreateOrUpdateSecret(v, s)
    /\ UNCHANGED <<pod, resource, made>>

(* A publish without secrets mounts by process, and fails for want of a    *)
(* name.                                                                   *)
NodePublishVolume(t, v, ro) ==
    /\ published[t] = None
    /\ LET s == SettingOf(v, ro)
       IN  s.ok /\ s.usePod /\ (CreatePod(v, s) \/ AddRef(v, s))
    /\ published' = [published EXCEPT ![t] = [vol |-> v, ro |-> ro]]
    /\ UNCHANGED volume

(* A quantity does not parse: the plugin panics and starts again. *)
PublishPanics(t, v, ro) ==
    /\ published[t] = None
    /\ LET s == SettingOf(v, ro)
       IN  s.ok /\ s.usePod /\ pod[v] = None /\ BadQuantity(s.volCtx)
    /\ resource' = Defaults
    /\ UNCHANGED <<volume, pod, data, owner, published, history>>

(* The last user of the pod takes it along; the secret loses its owner.    *)
NodeUnpublishVolume(t) ==
    /\ published[t] # None
    /\ published' = [published EXCEPT ![t] = None]
    /\ LET v    == published[t].vol
           last == Users(v) = {t}
       IN  /\ pod' = [pod EXCEPT ![v] = IF last THEN None ELSE @]
           /\ owner' = [owner EXCEPT ![v] = IF last THEN Owned!WithoutOwner(@)
                                            ELSE @]
    /\ UNCHANGED <<volume, resource, data, history>>

(* The mount pod is deleted under its users, and the reconciler creates it *)
(* again from what it was: another pod, that does not own the secret.      *)
PodRecreated(v) ==
    /\ pod[v] # None
    /\ owner' = [owner EXCEPT ![v] = Owned!WithoutOwner(@)]
    /\ UNCHANGED <<volume, resource, pod, data, published, history>>

(* The garbage collector removes a secret whose owner is gone, be there a  *)
(* pod that uses it or not.                                                *)
SecretCollected(v) ==
    /\ owner[v] = "orphaned"
    /\ data' = [data EXCEPT ![v] = None]
    /\ owner' = [owner EXCEPT ![v] = "absent"]
    /\ wrote' = [wrote EXCEPT ![v] = {}]
    /\ UNCHANGED <<volume, resource, pod, published, made>>

(* the owner of the volume replaces its secrets *)
SecretsChange(v) ==
    /\ \E s \in SecretSets : secrets' = [secrets EXCEPT ![v] = s]
    /\ UNCHANGED <<volCtx, flags, resource, pod, data, owner, published, history>>

Next ==
    \/ \E t \in Targets, v \in Volumes, ro \in ReadOnly :
          NodePublishVolume(t, v, ro) \/ PublishPanics(t, v, ro)
    \/ \E t \in Targets : NodeUnpublishVolume(t)
    \/ \E v \in Volumes : PodRecreated(v) \/ SecretCollected(v) \/ SecretsChange(v)

Spec == Init /\ [][Next]_vars

-----------------------------------------------------------------------------
Exists(v) == pod[v] # None

(* The secret the pod reads has been written with the secrets the pod was  *)
(* built from: it was not collected since, or it was and such a publish    *)
(* came after.                                                             *)
HasItsSecret(v) == Exists(v) /\ made[v] \in wrote[v]

(* A mount pod can start, and start again after the secrets of its volume  *)
(* were replaced and other publishes wrote its secret: every volume it     *)
(* mounts is one of the pod's, every key a volume shows is in the secret,  *)
(* and every container that names the private key file has it mounted.     *)
(* This holds also for a pod whose secret outlived another pod, or was     *)
(* collected under it and created again.                                   *)
PodCanStart ==
    \A v \in Volumes : HasItsSecret(v) =>
        LET p == pod[v]
        IN  /\ p.mounts \cup p.init.mounts \subseteq DOMAIN p.volumes
            /\ \A n \in DOMAIN p.volumes :
                  p.volumes[n] \in DOMAIN data[v] \cup {""}
            /\ p.cmd.source[1] = "var" => p.cmd.source[2] \in DOMAIN data[v]
            /\ "rsa-key" \in p.cmd.options => "rsa-key" \in p.mounts
            /\ RsaKeyFile \in p.init.cmd.args => "rsa-key" \in p.init.mounts

(* one spelling of the secret key, the one documented for the edition *)
OneSpelling(s) ==
    IF "metaurl" \in DOMAIN s THEN "secretkey" \notin DOMAIN s
    ELSE ~({"secretkey", "secret-key"} \subseteq DOMAIN s)

Options(args) == {a[1] : a \in args}

(* what secrets s give for option o, in either spelling *)
Given(s, o) ==
    LET keys == IF o \in {"secretkey", "secret-key"}
                THEN {"secretkey", "secret-key"} ELSE {o}
    IN  {s[k] : k \in keys \cap DOMAIN s}

(* The init container of a mount pod, run now with the secret as it is     *)
(* now, gives auth or format the options AuthFs and ceFormat give it when  *)
(* they run in the plugin with the secrets the pod was built from: none is *)
(* lost on the way through the secret and its environment variables.  Each *)
(* has its value from these secrets, or from others written since the      *)
(* secret was created; where no others were, the arguments are the same.   *)
SameCommand ==
    \A v \in Volumes :
        /\ HasItsSecret(v) /\ pod[v].init.cmd # NoCmd
        /\ OneSpelling(made[v])
        => LET run  == Prepare(made[v]).run
               args == Expand(pod[v].init.cmd, data[v]) \ {RsaKeyFile}
           IN  /\ Options(args) = Options(run)
               /\ \A a \in args \ run :
                     \E s \in wrote[v] \ {made[v]} : a[2] \in Given(s, a[1])

-----------------------------------------------------------------------------
(* What the code does not guarantee (README, Known deviations).            *)

(* A mount pod asks for the resources its own volume was configured with,  *)
(* and for the plugin's where the volume says nothing, whatever pods were  *)
(* built before it: the attributes of a PV define the limits and requests  *)
(* of its mount pod.                                                       *)
OwnResources ==
    \A v \in Volumes : Exists(v) =>
        \A kind \in Kinds :
            pod[v].resources[kind] =
                Over(IF Defaults[kind] = None THEN EmptyMap ELSE Defaults[kind],
                     Asked(volCtx[v], kind))

(* A volume is mounted read-only for those that asked for it, and only for *)
(* them; the arguments of the init container are those of one set of       *)
(* secrets; a pod in use has its secret.                                   *)
ModeAsAsked ==
    \A t \in Targets : published[t] # None =>
        ("ro" \in pod[published[t].vol].cmd.options) = published[t].ro

ArgumentsOfOneSet ==
    \A v \in Volumes :
        HasItsSecret(v) /\ pod[v].init.cmd # NoCmd /\ OneSpelling(made[v]) =>
            \E s \in wrote[v] :
                Expand(pod[v].init.cmd, data[v]) \ {RsaKeyFile} = Prepare(s).run

PodHasItsSecret == \A v \in Volumes : Exists(v) => HasItsSecret(v)

=============================================================================
