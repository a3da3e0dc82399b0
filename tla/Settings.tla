------------------------------ MODULE Settings ------------------------------
(***************************************************************************)
(* From the secrets and attributes of a volume to the mount pod: the pure  *)
(* part.  ParseSetting and getSettings with AuthFs and ceFormat, NewSecret *)
(* and the Builder of the mount pod.  A Go map is a function on the keys   *)
(* it has, a text that has to be parsed is looked up in Parsed, a command  *)
(* is the set of its arguments: <<option, value>>, or <<option, variable>> *)
(* where the shell of the container puts the value in.  Keys that are      *)
(* treated alike have one representative: accesskey2, bucket2, subdir as   *)
(* bucket, secretkey2 as secretkey, passphrase as itself, the optional     *)
(* keys of ceFormat as block-size.                                         *)
(***************************************************************************)
CONSTANTS
    FormatInPod,      \* --format-in-pod: auth and format run in the pod
    NoUpdateConfig,   \* JFS_NO_UPDATE_CONFIG is enabled
    MountLabels,      \* JUICEFS_MOUNT_LABELS, a text
    Parsed,           \* the maps the texts stand for that parse as YAML
    Durations,        \* the texts that parse as a duration
    CacheDirs         \* the cache directories in each cache-dir option

EmptyMap == [k \in {} |-> ""]
Val(m, k) == IF k \in DOMAIN m THEN m[k] ELSE ""
Over(m, n) == [k \in DOMAIN m \cup DOMAIN n |->
                  IF k \in DOMAIN n THEN n[k] ELSE m[k]]
NonEmpty(m) == {k \in DOMAIN m : m[k] # ""}

Parses(text) == text \in DOMAIN Parsed \cup {""}
ParseYamlOrJson(text) == IF text = "" THEN EmptyMap ELSE Parsed[text]

-----------------------------------------------------------------------------
NoCmd == [args |-> {}, vars |-> {}]

(* the setting of a publish without secrets: not by pod, no name *)
NoSetting ==
    [ok |-> TRUE, usePod |-> FALSE, isCe |-> FALSE, name |-> "",
     metaurl |-> "", storage |-> "", secretKey |-> "", token |-> "",
     passphrase |-> "", rsaKey |-> "", initConfig |-> "",
     configs |-> EmptyMap, envs |-> EmptyMap, volCtx |-> EmptyMap,
     options |-> {}, formatCmd |-> NoCmd]

Failed == [NoSetting EXCEPT !.ok = FALSE]

(* mutant: the old spelling of the secret key is not read *)
SecretKey_NewOnly(secrets) == Val(secrets, "secretkey")

(* the JSON name of the field, or the key the cloud service uses *)
SecretKey(secrets) ==
    IF Val(secrets, "secretkey") # "" THEN secrets["secretkey"]
    ELSE Val(secrets, "secret-key")

(* Labels, annotations and the delete delay of the volume are only parsed  *)
(* here: they are for the users of the pod and for DeleteDelay.            *)
ParseSetting(secrets, volCtx, usePod) ==
    IF DOMAIN secrets = {} THEN NoSetting
    ELSE IF \/ Val(secrets, "name") = ""
            \/ ~Parses(Val(secrets, "configs"))
            \/ ~Parses(Val(secrets, "envs"))
            \/ ~Parses(MountLabels)
            \/ Val(volCtx, "delay") \notin Durations \cup {""}
            \/ ~Parses(Val(volCtx, "labels"))
            \/ ~Parses(Val(volCtx, "annotations"))
    THEN Failed
    ELSE [NoSetting EXCEPT
            !.usePod = usePod,
            !.isCe = "metaurl" \in DOMAIN secrets,
            !.name = secrets["name"],
            !.metaurl = Val(secrets, "metaurl"),
            !.storage = Val(secrets, "storage"),
            !.secretKey = SecretKey(secrets),
            !.token = Val(secrets, "token"),
            !.passphrase = Val(secrets, "passphrase"),
            !.rsaKey = Val(secrets, "encrypt_rsa_key"),
            !.initConfig = Val(secrets, "initconfig"),
            !.configs = ParseYamlOrJson(Val(secrets, "configs")),
            !.envs = ParseYamlOrJson(Val(secrets, "envs")),
            !.volCtx = volCtx]

-----------------------------------------------------------------------------
(* The command a tool is run with, here (Local) and in the pod (InPod):    *)
(* the values of the stripped keys are left to the environment.            *)
Local(secrets, keys, noUpdate) ==
    {<<k, Val(secrets, k)>> : k \in keys}
    \cup (IF noUpdate THEN {<<"no-update", "">>} ELSE {})

InPod(secrets, keys, noUpdate, stripped) ==
    [args |-> Local(secrets, keys \ DOMAIN stripped, noUpdate),
     vars |-> {<<k, stripped[k]>> : k \in keys \cap DOMAIN stripped}]

Expand(cmd, env) == cmd.args \cup {<<p[1], Val(env, p[2])>> : p \in cmd.vars}

(* AuthFs first gives the compatible keys their present names *)
OldSpelling == [accesskey |-> "access-key", secretkey |-> "secret-key"]

Compatible(secrets) ==
    LET moved == {k \in DOMAIN OldSpelling : OldSpelling[k] \in DOMAIN secrets}
        old   == {OldSpelling[k] : k \in moved}
    IN  [k \in (DOMAIN secrets \ old) \cup moved |->
            IF k \in moved THEN secrets[OldSpelling[k]] ELSE secrets[k]]

AuthStripped == [token |-> "token", secretkey |-> "secretkey",
                 passphrase |-> "passphrase"]

AuthKeys(s) ==
    {"name", "token"}
    \cup ({"accesskey", "bucket", "secretkey", "passphrase"} \cap NonEmpty(s))

AuthFails(s) == Val(s, "name") = "" \/ (NoUpdateConfig /\ Val(s, "bucket") = "")

AuthFs(secrets) ==
    LET s == Compatible(secrets)
    IN  [ok |-> ~AuthFails(s),
         run |-> Local(s, AuthKeys(s), NoUpdateConfig),
         cmd |-> InPod(s, AuthKeys(s), NoUpdateConfig, AuthStripped)]

FormatStripped == [s \in {"secret-key", "metaurl"} |->
                     IF s = "metaurl" THEN s ELSE "secretkey"]

FormatKeys(s) ==
    {"storage", "bucket", "access-key", "secret-key", "metaurl", "name"}
    \cup ({"block-size"} \cap NonEmpty(s))

CeFormat(secrets) ==
    LET noUpdate == Val(secrets, "storage") = "" \/ Val(secrets, "bucket") = ""
    IN
    [ok |-> Val(secrets, "name") # "" /\ Val(secrets, "metaurl") # "",
     run |-> Local(secrets, FormatKeys(secrets), noUpdate),
     cmd |-> InPod(secrets, FormatKeys(secrets), noUpdate, FormatStripped)]

(* which of the two, if any; a file system without a token needs none *)
Prepare(secrets) ==
    IF "metaurl" \in DOMAIN secrets THEN CeFormat(secrets)
    ELSE IF Val(secrets, "token") = ""
         THEN [ok |-> TRUE, run |-> {}, cmd |-> NoCmd]
    ELSE AuthFs(secrets)

GetSettings(secrets, volCtx, options) ==
    LET s == ParseSetting(secrets, volCtx, TRUE)
        p == Prepare(secrets)
        noCheck == /\ FormatInPod /\ s.isCe
                   /\ s.storage \in {"ceph", "gs"}
    IN  IF ~s.ok \/ ~p.ok THEN Failed
        ELSE [s EXCEPT
                !.options = options,
                !.envs = IF noCheck
                         THEN Over(@, [JFS_NO_CHECK_OBJECT_STORAGE |-> "1"])
                         ELSE @,
                !.formatCmd = IF FormatInPod THEN p.cmd ELSE NoCmd]

-----------------------------------------------------------------------------
(* Builder.NewSecret *)
NewSecret(s) ==
    LET own == [metaurl |-> s.metaurl, secretkey |-> s.secretKey,
                token |-> s.token, passphrase |-> s.passphrase,
                encrypt_rsa_key |-> s.rsaKey, init_config |-> s.initConfig]
    IN  Over([k \in NonEmpty(own) |-> own[k]], s.envs)

RsaKeyFile == <<"encrypt-rsa-key", "/root/.rsa/rsa-key.pem">>

(* the volumes, each with the key of the secret it shows, if any; those    *)
(* of configs carry the name of their secret                               *)
GetVolumes(s) ==
    LET Keyed(on, name, key) == IF on # "" THEN [n \in {name} |-> key]
                                           ELSE EmptyMap
    IN  Over([n \in {"jfs-dir", "jfs-root-dir"} \cup DOMAIN s.configs |-> ""],
             Over(Keyed(s.rsaKey, "rsa-key", "encrypt_rsa_key"),
                  Keyed(s.initConfig, "init_config", "init_config")))

GetVolumeMounts(s) ==
    {"jfs-dir", "jfs-root-dir"} \cup DOMAIN s.configs
    \cup (IF s.rsaKey # "" /\ ~s.isCe THEN {"rsa-key"} ELSE {})
    \cup (IF s.initConfig # "" THEN {"init_config"} ELSE {})

(* the mount command of the container *)
GetCommand(s) ==
    [source  |-> IF s.isCe THEN <<"var", "metaurl">> ELSE <<"name", s.name>>,
     options |-> s.options
        \cup (IF ~s.isCe THEN {"foreground"}
              ELSE IF "metrics" \in s.options THEN {} ELSE {"metrics=default"})
        \cup (IF ~s.isCe /\ s.rsaKey # "" THEN {"rsa-key"} ELSE {})]

(* the host directories of the cache *)
GetCacheDirVolumes(s) ==
    LET given == s.options \cap DOMAIN CacheDirs
    IN  IF given = {} THEN {"jfs-default-cache"}
        ELSE UNION {CacheDirs[o] : o \in given}

(* the init container, when auth or format is left to the pod *)
GetInitContainer(s) ==
    LET rsa == s.rsaKey # "" /\ s.isCe
    IN  IF s.formatCmd = NoCmd THEN [cmd |-> NoCmd, mounts |-> {}]
        ELSE [cmd    |-> IF rsa THEN [s.formatCmd EXCEPT !.args = @ \cup {RsaKeyFile}]
                                ELSE s.formatCmd,
              mounts |-> GetVolumeMounts(s)
                         \cup (IF rsa THEN {"rsa-key"} ELSE {})]

(* NewMountPod, with the resources parsePodResources found *)
NewMountPod(s, resources) ==
    LET cache == GetCacheDirVolumes(s)
    IN  [cmd       |-> GetCommand(s),
         init      |-> GetInitContainer(s),
         volumes   |-> Over(GetVolumes(s), [d \in cache |-> ""]),
         mounts    |-> GetVolumeMounts(s) \cup cache,
         resources |-> resources]
=============================================================================
