--------------------------- MODULE SettingsProofs ---------------------------
(***************************************************************************)
(* Proofs about MountPodSettings, for every set of volumes, targets,       *)
(* secrets, attributes and mount options, and for any replacement of the   *)
(* secrets of a volume by others, at any time.                             *)
(***************************************************************************)
EXTENDS MountPodSettings, TLAPS

(* What stands for no pod and no secret is not one of the maps. *)
NoneIsNoMap == \A m, n : Over(m, n) # None

(* No volume is given the option that names the private key file: it is    *)
(* the driver that adds it.                                                *)
NoKeyOption == \A f \in FlagSets : "rsa-key" \notin f

TypeInv ==
    /\ secrets \in [Volumes -> SecretSets]
    /\ volCtx \in [Volumes -> VolCtxs]
    /\ flags \in [Volumes -> FlagSets]
    /\ pod = [v \in Volumes |-> pod[v]]
    /\ data = [v \in Volumes |-> data[v]]
    /\ made = [v \in Volumes |-> made[v]]
    /\ wrote = [v \in Volumes |-> wrote[v]]

-----------------------------------------------------------------------------
(* What a map has after another one was written over it. *)
LEMMA OverFacts ==
    ASSUME NEW m, NEW n
    PROVE  /\ DOMAIN Over(m, n) = DOMAIN m \cup DOMAIN n
           /\ \A k \in DOMAIN n : Over(m, n)[k] = n[k]
           /\ \A k \in DOMAIN m \ DOMAIN n : Over(m, n)[k] = m[k]
BY DEF Over

LEMMA OverRange ==
    ASSUME NEW m, NEW n, NEW S, \A k \in DOMAIN m : m[k] \in S,
           \A k \in DOMAIN n : n[k] \in S
    PROVE  \A k \in DOMAIN Over(m, n) : Over(m, n)[k] \in S
BY DEF Over

(* What the setting of a publish by pod takes from the volume. *)
LEMMA ParseFacts ==
    ASSUME NEW sec, NEW ctx, NEW s, s = ParseSetting(sec, ctx, TRUE),
           s.ok, s.usePod
    PROVE  /\ s.isCe = ("metaurl" \in DOMAIN sec)
           /\ s.metaurl = Val(sec, "metaurl")
           /\ s.secretKey = SecretKey(sec)
           /\ s.token = Val(sec, "token")
           /\ s.passphrase = Val(sec, "passphrase")
           /\ s.rsaKey = Val(sec, "encrypt_rsa_key")
           /\ s.initConfig = Val(sec, "initconfig")
           /\ s.envs = ParseYamlOrJson(Val(sec, "envs"))
           /\ Parses(Val(sec, "envs"))
<1>1. s # NoSetting /\ s # Failed
  <2>1. NoSetting.usePod = FALSE /\ Failed.ok = FALSE
    BY DEF NoSetting, Failed
  <2>2. QED
    BY <2>1
<1>2. QED
  BY <1>1 DEF ParseSetting, NoSetting

LEMMA SettingFacts ==
    ASSUME NEW sec, NEW ctx, NEW opts, NEW s, s = GetSettings(sec, ctx, opts),
           s.ok, s.usePod
    PROVE  /\ s.options = opts
           /\ s.isCe = ("metaurl" \in DOMAIN sec)
           /\ s.metaurl = Val(sec, "metaurl")
           /\ s.secretKey = SecretKey(sec)
           /\ s.token = Val(sec, "token")
           /\ s.passphrase = Val(sec, "passphrase")
           /\ s.rsaKey = Val(sec, "encrypt_rsa_key")
           /\ s.initConfig = Val(sec, "initconfig")
           /\ Parses(Val(sec, "envs"))
           /\ DOMAIN s.envs \subseteq
                 DOMAIN ParseYamlOrJson(Val(sec, "envs"))
                 \cup {"JFS_NO_CHECK_OBJECT_STORAGE"}
           /\ s.formatCmd = IF FormatInPod THEN Prepare(sec).cmd ELSE NoCmd
           /\ Prepare(sec).ok
<1> DEFINE q == ParseSetting(sec, ctx, TRUE)
           noCheck == /\ FormatInPod /\ q.isCe
                      /\ q.storage \in {"ceph", "gs"}
           prepared == [q EXCEPT
                !.options = opts,
                !.envs = IF noCheck
                         THEN Over(@, [JFS_NO_CHECK_OBJECT_STORAGE |-> "1"])
                         ELSE @,
                !.formatCmd = IF FormatInPod THEN Prepare(sec).cmd ELSE NoCmd]
<1>1. s = IF ~q.ok \/ ~Prepare(sec).ok THEN Failed ELSE prepared
  BY DEF GetSettings
<1>2. Failed.ok = FALSE
  BY DEF Failed, NoSetting
<1>3. q.ok /\ Prepare(sec).ok /\ s = prepared
  BY <1>1, <1>2
<1>4. DOMAIN q = DOMAIN NoSetting
  <2>1. DOMAIN Failed = DOMAIN NoSetting
    BY DEF Failed
  <2>2. QED
    BY <2>1 DEF ParseSetting
<1>5. {"ok", "usePod", "isCe", "metaurl", "options", "formatCmd",
       "secretKey", "token", "passphrase", "rsaKey", "initConfig",
       "envs"} \subseteq DOMAIN q
  BY <1>4 DEF NoSetting
<1>q. q = ParseSetting(sec, ctx, TRUE)
  OBVIOUS
<1> HIDE DEF q, noCheck
<1>6. /\ s.ok = q.ok /\ s.usePod = q.usePod
      /\ s.isCe = q.isCe /\ s.metaurl = q.metaurl
      /\ s.secretKey = q.secretKey /\ s.token = q.token
      /\ s.passphrase = q.passphrase
      /\ s.rsaKey = q.rsaKey /\ s.initConfig = q.initConfig
  BY <1>3, <1>5
<1>7. /\ s.options = opts
      /\ s.formatCmd = IF FormatInPod THEN Prepare(sec).cmd ELSE NoCmd
  BY <1>3, <1>5
<1>8. /\ q.isCe = ("metaurl" \in DOMAIN sec)
      /\ q.metaurl = Val(sec, "metaurl")
      /\ q.secretKey = SecretKey(sec) /\ q.token = Val(sec, "token")
      /\ q.passphrase = Val(sec, "passphrase")
      /\ q.rsaKey = Val(sec, "encrypt_rsa_key")
      /\ q.initConfig = Val(sec, "initconfig")
      /\ q.envs = ParseYamlOrJson(Val(sec, "envs"))
      /\ Parses(Val(sec, "envs"))
  <2>1. q.ok /\ q.usePod
    BY <1>3, <1>6
  <2>2. q.isCe = ("metaurl" \in DOMAIN sec)
    BY <1>q, <2>1, ParseFacts, Zenon
  <2>3. /\ q.secretKey = SecretKey(sec) /\ q.token = Val(sec, "token")
        /\ q.passphrase = Val(sec, "passphrase")
        /\ q.rsaKey = Val(sec, "encrypt_rsa_key")
        /\ q.initConfig = Val(sec, "initconfig")
    BY <1>q, <2>1, ParseFacts, Zenon
  <2>4. /\ q.envs = ParseYamlOrJson(Val(sec, "envs"))
        /\ Parses(Val(sec, "envs"))
    BY <1>q, <2>1, ParseFacts, Zenon
  <2>5. q.metaurl = Val(sec, "metaurl")
    BY <1>q, <2>1, ParseFacts, Zenon
  <2>6. QED
    BY <2>2, <2>3, <2>4, <2>5
<1>9. DOMAIN s.envs \subseteq DOMAIN q.envs \cup {"JFS_NO_CHECK_OBJECT_STORAGE"}
  <2> DEFINE extra == [JFS_NO_CHECK_OBJECT_STORAGE |-> "1"]
  <2>1. s.envs = IF noCheck THEN Over(q.envs, extra) ELSE q.envs
    BY <1>3, <1>5
  <2>2. DOMAIN extra = {"JFS_NO_CHECK_OBJECT_STORAGE"}
    OBVIOUS
  <2> HIDE DEF extra
  <2>3. DOMAIN Over(q.envs, extra) = DOMAIN q.envs \cup DOMAIN extra
    BY OverFacts
  <2>4. QED
    BY <2>1, <2>2, <2>3
<1>10. QED
  BY <1>3, <1>6, <1>7, <1>8, <1>9

-----------------------------------------------------------------------------
(* The steps of a publish, for the volume and its setting *)

(* s is the setting the publish of volume v by pod uses. *)
Publish(v, s) ==
    \E ro \in ReadOnly : s = SettingOf(v, ro) /\ s.ok /\ s.usePod

(* The secret of the mount pod after that publish. *)
Stored(v, s) ==
    IF data[v] = None THEN NewSecret(s) ELSE Over(data[v], NewSecret(s))

(* What a step may do to the mount pod of a volume and to its secret: the  *)
(* pod is built; a publish shares it and writes the secret; the pod is     *)
(* left alone or removed; the secret is collected.                         *)
Written(v, s) ==
    data'[v] = Stored(v, s) /\ wrote'[v] = wrote[v] \cup {secrets[v]}
Built(v) ==
    \E s : /\ Publish(v, s) /\ Written(v, s)
           /\ pod'[v] = NewMountPod(s, ParsePodResources(s.volCtx))
           /\ made'[v] = secrets[v]
Shared(v) ==
    \E s : /\ Publish(v, s) /\ Written(v, s)
           /\ pod'[v] = pod[v] /\ made'[v] = made[v]
Left(v) ==
    /\ pod'[v] \in {pod[v], None} /\ made'[v] = made[v]
    /\ data'[v] = data[v] /\ wrote'[v] = wrote[v]
Collected(v) ==
    /\ pod'[v] = pod[v] /\ made'[v] = made[v]
    /\ data'[v] = None /\ wrote'[v] = {}

LEMMA InitType == Init => TypeInv
BY DEF Init, TypeInv

LEMMA NextType == TypeInv /\ [Next]_vars => TypeInv'
<1> SUFFICES ASSUME TypeInv, [Next]_vars PROVE TypeInv'
  OBVIOUS
<1> USE DEF TypeInv
<1>1. ASSUME NEW t \in Targets, NEW v \in Volumes, NEW ro \in ReadOnly,
             NodePublishVolume(t, v, ro)
      PROVE  TypeInv'
  <2> DEFINE s == SettingOf(v, ro)
  <2>1. /\ data' = [data EXCEPT ![v] = IF @ = None THEN NewSecret(s)
                                       ELSE Over(@, NewSecret(s))]
        /\ wrote' = [wrote EXCEPT ![v] = @ \cup {secrets[v]}]
        /\ UNCHANGED <<secrets, volCtx, flags>>
    BY <1>1 DEF NodePublishVolume, CreatePod, AddRef, CreateOrUpdateSecret,
                volume
  <2>2. \/ pod' = pod /\ made' = made
        \/ /\ pod' = [pod EXCEPT ![v] =
                         NewMountPod(s, ParsePodResources(s.volCtx))]
           /\ made' = [made EXCEPT ![v] = secrets[v]]
    BY <1>1 DEF NodePublishVolume, CreatePod, AddRef
  <2> HIDE DEF s
  <2>3. data' = [u \in Volumes |-> data'[u]]
    BY <2>1
  <2>4. wrote' = [u \in Volumes |-> wrote'[u]]
    BY <2>1
  <2>5. pod' = [u \in Volumes |-> pod'[u]] /\ made' = [u \in Volumes |-> made'[u]]
    BY <2>2
  <2>6. QED
    BY <2>1, <2>3, <2>4, <2>5
<1>2. ASSUME NEW t \in Targets, NEW v \in Volumes, NEW ro \in ReadOnly,
             PublishPanics(t, v, ro)
      PROVE  TypeInv'
  BY <1>2 DEF PublishPanics, volume, history
<1>3. ASSUME NEW t \in Targets, NodeUnpublishVolume(t) PROVE TypeInv'
  <2>1. /\ pod' = [pod EXCEPT ![published[t].vol] =
                      IF Users(published[t].vol) = {t} THEN None ELSE @]
        /\ UNCHANGED <<secrets, volCtx, flags, data, made, wrote>>
    BY <1>3 DEF NodeUnpublishVolume, volume, history
  <2>2. pod' = [u \in Volumes |-> pod'[u]]
    BY <2>1
  <2>3. QED
    BY <2>1, <2>2
<1>4. ASSUME NEW v \in Volumes, SecretCollected(v) PROVE TypeInv'
  <2>1. /\ data' = [data EXCEPT ![v] = None]
        /\ wrote' = [wrote EXCEPT ![v] = {}]
        /\ UNCHANGED <<secrets, volCtx, flags, pod, made>>
    BY <1>4 DEF SecretCollected, volume
  <2>2. data' = [u \in Volumes |-> data'[u]] /\ wrote' = [u \in Volumes |-> wrote'[u]]
    BY <2>1
  <2>3. QED
    BY <2>1, <2>2
<1>5. ASSUME NEW v \in Volumes, SecretsChange(v) PROVE TypeInv'
  BY <1>5 DEF SecretsChange, history
<1>6. ASSUME NEW v \in Volumes, PodRecreated(v) PROVE TypeInv'
  BY <1>6 DEF PodRecreated, volume, history
<1>7. CASE UNCHANGED vars
  BY <1>7 DEF vars, volume, history
<1>8. QED
  BY <1>1, <1>2, <1>3, <1>4, <1>5, <1>6, <1>7 DEF Next

LEMMA PodSteps ==
    ASSUME TypeInv, [Next]_vars, NEW v \in Volumes
    PROVE  Built(v) \/ Shared(v) \/ Left(v) \/ Collected(v)
<1> USE DEF TypeInv
<1>1. ASSUME NEW t \in Targets, NEW u \in Volumes, NEW ro \in ReadOnly,
             NodePublishVolume(t, u, ro)
      PROVE  Built(v) \/ Shared(v) \/ Left(v)
  <2> DEFINE s == SettingOf(u, ro)
  <2>1. Publish(u, s)
    BY <1>1 DEF NodePublishVolume, Publish
  <2>2. /\ data' = [data EXCEPT ![u] = Stored(u, s)]
        /\ wrote' = [wrote EXCEPT ![u] = @ \cup {secrets[u]}]
    BY <1>1 DEF NodePublishVolume, CreatePod, AddRef, CreateOrUpdateSecret,
                Stored
  <2>3. \/ pod' = pod /\ made' = made
        \/ /\ pod' = [pod EXCEPT ![u] =
                         NewMountPod(s, ParsePodResources(s.volCtx))]
           /\ made' = [made EXCEPT ![u] = secrets[u]]
    BY <1>1 DEF NodePublishVolume, CreatePod, AddRef
  <2> HIDE DEF s
  <2>4. CASE u = v
    <3>1. Written(v, s)
      BY <2>2, <2>4 DEF Written
    <3>2. \/ pod'[v] = pod[v] /\ made'[v] = made[v]
          \/ /\ pod'[v] = NewMountPod(s, ParsePodResources(s.volCtx))
             /\ made'[v] = secrets[v]
      BY <2>3, <2>4
    <3>3. QED
      BY <2>1, <2>4, <3>1, <3>2 DEF Built, Shared
  <2>5. CASE u # v
    BY <2>2, <2>3, <2>5 DEF Left
  <2>6. QED
    BY <2>4, <2>5
<1>2. ASSUME NEW t \in Targets, NEW u \in Volumes, NEW ro \in ReadOnly,
             PublishPanics(t, u, ro)
      PROVE  Left(v)
  BY <1>2 DEF PublishPanics, Left, history
<1>3. ASSUME NEW t \in Targets, NodeUnpublishVolume(t) PROVE Left(v)
  BY <1>3 DEF NodeUnpublishVolume, Left, history
<1>4. ASSUME NEW u \in Volumes, SecretCollected(u)
      PROVE  Left(v) \/ Collected(v)
  BY <1>4 DEF SecretCollected, Left, Collected
<1>5. ASSUME NEW u \in Volumes, SecretsChange(u) PROVE Left(v)
  BY <1>5 DEF SecretsChange, Left, history
<1>6. ASSUME NEW u \in Volumes, PodRecreated(u) PROVE Left(v)
  BY <1>6 DEF PodRecreated, Left, history
<1>7. CASE UNCHANGED vars
  BY <1>7 DEF vars, Left, history
<1>8. QED
  BY <1>1, <1>2, <1>3, <1>4, <1>5, <1>6, <1>7 DEF Next

-----------------------------------------------------------------------------
(* The pod starts *)

(* The parts of a mount pod. *)
LEMMA PodParts ==
    ASSUME NEW s, NEW r
    PROVE  /\ NewMountPod(s, r).resources = r
           /\ NewMountPod(s, r).cmd = GetCommand(s)
           /\ NewMountPod(s, r).init = GetInitContainer(s)
           /\ NewMountPod(s, r).mounts =
                 GetVolumeMounts(s) \cup GetCacheDirVolumes(s)
           /\ NewMountPod(s, r).volumes =
                 Over(GetVolumes(s), [d \in GetCacheDirVolumes(s) |-> ""])
BY Zenon DEF NewMountPod

(* Pod p can start with the secret d: what PodCanStart says of one volume. *)
CanStart(p, d) ==
    /\ p.mounts \cup p.init.mounts \subseteq DOMAIN p.volumes
    /\ \A n \in DOMAIN p.volumes : p.volumes[n] \in DOMAIN d \cup {""}
    /\ p.cmd.source[1] = "var" => p.cmd.source[2] \in DOMAIN d
    /\ "rsa-key" \in p.cmd.options => "rsa-key" \in p.mounts
    /\ RsaKeyFile \in p.init.cmd.args => "rsa-key" \in p.init.mounts

(* The secret d has the keys that a pod built from secrets sec shows. *)
Needs(sec, d) ==
    /\ Val(sec, "metaurl") # "" => "metaurl" \in DOMAIN d
    /\ Val(sec, "encrypt_rsa_key") # "" => "encrypt_rsa_key" \in DOMAIN d
    /\ Val(sec, "initconfig") # "" => "init_config" \in DOMAIN d

(* The volumes of the pod: one for everything it mounts, and those that    *)
(* show a key show one that the secret has.                                *)
LEMMA PodVolumes ==
    ASSUME NEW s, NEW d,
           s.rsaKey # "" => "encrypt_rsa_key" \in DOMAIN d,
           s.initConfig # "" => "init_config" \in DOMAIN d
    PROVE  LET vols == Over(GetVolumes(s),
                            [c \in GetCacheDirVolumes(s) |-> ""])
           IN  /\ GetVolumeMounts(s) \cup GetCacheDirVolumes(s)
                     \subseteq DOMAIN vols
               /\ s.rsaKey # "" => "rsa-key" \in DOMAIN vols
               /\ \A n \in DOMAIN vols :
                     vols[n] \in DOMAIN d \cup {""}
<1> DEFINE Keyed(on, name, key) == IF on # "" THEN [n \in {name} |-> key]
                                              ELSE EmptyMap
           plain == [n \in {"jfs-dir", "jfs-root-dir"} \cup DOMAIN s.configs
                        |-> ""]
           rsa   == Keyed(s.rsaKey, "rsa-key", "encrypt_rsa_key")
           conf  == Keyed(s.initConfig, "init_config", "init_config")
           cache == [c \in GetCacheDirVolumes(s) |-> ""]
           shown == DOMAIN d \cup {""}
<1>1. GetVolumes(s) = Over(plain, Over(rsa, conf))
  BY DEF GetVolumes
<1>2. /\ DOMAIN rsa = IF s.rsaKey # "" THEN {"rsa-key"} ELSE {}
      /\ \A n \in DOMAIN rsa : rsa[n] \in shown
  BY DEF EmptyMap
<1>3. /\ DOMAIN conf = IF s.initConfig # "" THEN {"init_config"} ELSE {}
      /\ \A n \in DOMAIN conf : conf[n] \in shown
  BY DEF EmptyMap
<1>4. /\ DOMAIN plain = {"jfs-dir", "jfs-root-dir"} \cup DOMAIN s.configs
      /\ \A n \in DOMAIN plain : plain[n] \in shown
  OBVIOUS
<1>5. /\ DOMAIN cache = GetCacheDirVolumes(s)
      /\ \A n \in DOMAIN cache : cache[n] \in shown
  OBVIOUS
<1> HIDE DEF plain, rsa, conf, cache, shown
<1>6. /\ DOMAIN Over(rsa, conf) = DOMAIN rsa \cup DOMAIN conf
      /\ \A n \in DOMAIN Over(rsa, conf) : Over(rsa, conf)[n] \in shown
  <2>1. DOMAIN Over(rsa, conf) = DOMAIN rsa \cup DOMAIN conf
    BY OverFacts
  <2>2. QED
    BY <1>2, <1>3, <2>1, OverRange
<1>7. /\ DOMAIN GetVolumes(s) = DOMAIN plain \cup DOMAIN rsa \cup DOMAIN conf
      /\ \A n \in DOMAIN GetVolumes(s) : GetVolumes(s)[n] \in shown
  <2>1. DOMAIN GetVolumes(s) = DOMAIN plain \cup DOMAIN Over(rsa, conf)
    BY <1>1, OverFacts
  <2>2. \A n \in DOMAIN Over(plain, Over(rsa, conf)) :
           Over(plain, Over(rsa, conf))[n] \in shown
    BY <1>4, <1>6, OverRange
  <2>3. QED
    BY <1>1, <1>6, <2>1, <2>2
<1>8. /\ DOMAIN Over(GetVolumes(s), cache)
            = DOMAIN GetVolumes(s) \cup DOMAIN cache
      /\ \A n \in DOMAIN Over(GetVolumes(s), cache) :
            Over(GetVolumes(s), cache)[n] \in shown
  <2>1. DOMAIN Over(GetVolumes(s), cache)
           = DOMAIN GetVolumes(s) \cup DOMAIN cache
    BY OverFacts
  <2>2. QED
    BY <1>5, <1>7, <2>1, OverRange
<1>9. GetVolumeMounts(s) \subseteq DOMAIN plain \cup DOMAIN rsa \cup DOMAIN conf
  BY <1>2, <1>3, <1>4 DEF GetVolumeMounts
<1>10. GetVolumeMounts(s) \cup GetCacheDirVolumes(s)
         \subseteq DOMAIN Over(GetVolumes(s), cache)
  BY <1>5, <1>7, <1>8, <1>9
<1>11. s.rsaKey # "" => "rsa-key" \in DOMAIN Over(GetVolumes(s), cache)
  BY <1>2, <1>7, <1>8
<1>12. QED
  BY <1>8, <1>10, <1>11 DEF cache, shown

(* Auth and format are never given the private key file by name: it is the *)
(* builder of the pod that adds it.                                        *)
LEMMA NoKeyFile ==
    ASSUME NEW sec
    PROVE  RsaKeyFile \notin Prepare(sec).cmd.args /\ RsaKeyFile \notin NoCmd.args
<1>1. NoCmd.args = {}
  BY DEF NoCmd
<1>2. ASSUME NEW m, NEW K, NEW noUpdate, "encrypt-rsa-key" \notin K
      PROVE  RsaKeyFile \notin Local(m, K, noUpdate)
  BY <1>2 DEF Local, RsaKeyFile
<1>3. ASSUME NEW m, NEW K, NEW noUpdate, NEW stripped,
             "encrypt-rsa-key" \notin K
      PROVE  RsaKeyFile \notin InPod(m, K, noUpdate, stripped).args
  BY <1>2, <1>3 DEF InPod
<1>4. RsaKeyFile \notin CeFormat(sec).cmd.args
  <2>1. "encrypt-rsa-key" \notin FormatKeys(sec)
    BY DEF FormatKeys
  <2>2. QED
    BY <1>3, <2>1 DEF CeFormat
<1>5. RsaKeyFile \notin AuthFs(sec).cmd.args
  <2>1. "encrypt-rsa-key" \notin AuthKeys(Compatible(sec))
    BY DEF AuthKeys
  <2>2. QED
    BY <1>3, <2>1 DEF AuthFs
<1>6. QED
  BY <1>1, <1>4, <1>5 DEF Prepare

(* The parts of the mount command and of the init container. *)
LEMMA CommandParts ==
    ASSUME NEW s
    PROVE  /\ s.isCe => GetCommand(s).source = <<"var", "metaurl">>
           /\ ~s.isCe => GetCommand(s).source = <<"name", s.name>>
           /\ \A o \in GetCommand(s).options :
                 \/ o \in s.options \cup {"foreground", "metrics=default"}
                 \/ ~s.isCe /\ s.rsaKey # ""
<1>1. GetCommand(s).source =
         IF s.isCe THEN <<"var", "metaurl">> ELSE <<"name", s.name>>
  BY Zenon DEF GetCommand
<1>2. GetCommand(s).options =
         s.options
         \cup (IF ~s.isCe THEN {"foreground"}
               ELSE IF "metrics" \in s.options THEN {} ELSE {"metrics=default"})
         \cup (IF ~s.isCe /\ s.rsaKey # "" THEN {"rsa-key"} ELSE {})
  BY Zenon DEF GetCommand
<1>3. s.isCe => GetCommand(s).source = <<"var", "metaurl">>
  BY <1>1, Zenon
<1>4. ~s.isCe => GetCommand(s).source = <<"name", s.name>>
  BY <1>1, Zenon
<1>5. QED
  BY <1>2, <1>3, <1>4

LEMMA InitParts ==
    ASSUME NEW s, s.formatCmd # NoCmd
    PROVE  LET rsa == s.rsaKey # "" /\ s.isCe
           IN  /\ GetInitContainer(s).mounts =
                     GetVolumeMounts(s) \cup (IF rsa THEN {"rsa-key"} ELSE {})
               /\ ~rsa => GetInitContainer(s).cmd = s.formatCmd
<1> DEFINE rsa == s.rsaKey # "" /\ s.isCe
           cmd == IF rsa THEN [s.formatCmd EXCEPT !.args = @ \cup {RsaKeyFile}]
                         ELSE s.formatCmd
           mounts == GetVolumeMounts(s) \cup (IF rsa THEN {"rsa-key"} ELSE {})
<1>1. GetInitContainer(s) = [cmd |-> cmd, mounts |-> mounts]
  BY Zenon DEF GetInitContainer
<1>2. ~rsa => cmd = s.formatCmd
  BY Zenon
<1> HIDE DEF cmd, mounts, rsa
<1>3. GetInitContainer(s).cmd = cmd /\ GetInitContainer(s).mounts = mounts
  BY <1>1
<1>4. QED
  BY <1>2, <1>3 DEF mounts, rsa

LEMMA NewPodStarts ==
    ASSUME NoKeyOption, TypeInv, NEW v \in Volumes, NEW s, Publish(v, s),
           NEW r, NEW d, Needs(secrets[v], d)
    PROVE  CanStart(NewMountPod(s, r), d)
<1> DEFINE p == NewMountPod(s, r)
<1>1. PICK ro \in ReadOnly : s = SettingOf(v, ro) /\ s.ok /\ s.usePod
  BY DEF Publish
<1> DEFINE opts == flags[v] \cup (IF ro THEN {"ro"} ELSE {})
<1>2. /\ s.options = opts
      /\ s.isCe = ("metaurl" \in DOMAIN secrets[v])
      /\ s.metaurl = Val(secrets[v], "metaurl")
      /\ s.rsaKey = Val(secrets[v], "encrypt_rsa_key")
      /\ s.initConfig = Val(secrets[v], "initconfig")
      /\ s.formatCmd = IF FormatInPod THEN Prepare(secrets[v]).cmd ELSE NoCmd
      /\ Prepare(secrets[v]).ok
  <2>1. s = GetSettings(secrets[v], volCtx[v], opts)
    BY <1>1 DEF SettingOf
  <2> HIDE DEF opts
  <2>2. QED
    BY <1>1, <2>1, SettingFacts
<1>3. s.isCe => s.metaurl # ""
  <2>1. CeFormat(secrets[v]).ok => Val(secrets[v], "metaurl") # ""
    BY DEF CeFormat
  <2>2. QED
    BY <1>2, <2>1 DEF Prepare
<1>4. "rsa-key" \notin s.options
  <2>1. "rsa-key" \notin flags[v]
    BY DEF NoKeyOption, TypeInv
  <2>2. QED
    BY <1>2, <2>1
<1>5. RsaKeyFile \notin s.formatCmd.args
  BY <1>2, NoKeyFile
<1>6. /\ p.cmd = GetCommand(s) /\ p.init = GetInitContainer(s)
      /\ p.mounts = GetVolumeMounts(s) \cup GetCacheDirVolumes(s)
      /\ p.volumes = Over(GetVolumes(s), [c \in GetCacheDirVolumes(s) |-> ""])
  BY PodParts
<1>7. /\ p.mounts \subseteq DOMAIN p.volumes
      /\ s.rsaKey # "" => "rsa-key" \in DOMAIN p.volumes
      /\ \A n \in DOMAIN p.volumes :
            p.volumes[n] \in DOMAIN d \cup {""}
  BY <1>2, <1>6, PodVolumes DEF Needs
<1> HIDE DEF p
<1>8. /\ p.init.mounts \subseteq
            p.mounts \cup (IF s.rsaKey # "" THEN {"rsa-key"} ELSE {})
      /\ RsaKeyFile \in p.init.cmd.args => "rsa-key" \in p.init.mounts
  <2>1. CASE s.formatCmd = NoCmd
    <3>1. GetInitContainer(s).cmd = NoCmd /\ GetInitContainer(s).mounts = {}
      BY <2>1 DEF GetInitContainer
    <3>2. QED
      BY <1>6, <3>1, NoKeyFile
  <2>2. CASE s.formatCmd # NoCmd
    <3> DEFINE rsa == s.rsaKey # "" /\ s.isCe
    <3>1. p.init.mounts = GetVolumeMounts(s)
                          \cup (IF rsa THEN {"rsa-key"} ELSE {})
      BY <1>6, <2>2, InitParts
    <3>2. ~rsa => p.init.cmd = s.formatCmd
      BY <1>6, <2>2, InitParts
    <3> HIDE DEF rsa
    <3>3. p.init.mounts \subseteq
            p.mounts \cup (IF s.rsaKey # "" THEN {"rsa-key"} ELSE {})
      BY <1>6, <3>1 DEF rsa
    <3>4. RsaKeyFile \in p.init.cmd.args => "rsa-key" \in p.init.mounts
      BY <1>5, <3>1, <3>2
    <3>5. QED
      BY <3>3, <3>4
  <2>3. QED
    BY <2>1, <2>2
<1>9. p.cmd.source[1] = "var" => p.cmd.source[2] \in DOMAIN d
  <2>1. CASE s.isCe
    <3>1. p.cmd.source = <<"var", "metaurl">>
      BY <1>6, <2>1, CommandParts
    <3>2. "metaurl" \in DOMAIN d
      BY <1>2, <1>3, <2>1 DEF Needs
    <3>3. QED
      BY <3>1, <3>2
  <2>2. CASE ~s.isCe
    <3>1. p.cmd.source = <<"name", s.name>>
      BY <1>6, <2>2, CommandParts
    <3>2. QED
      BY <3>1
  <2>3. QED
    BY <2>1, <2>2
<1>10. "rsa-key" \in p.cmd.options => "rsa-key" \in p.mounts
  <2>1. "rsa-key" \in p.cmd.options => ~s.isCe /\ s.rsaKey # ""
    BY <1>4, <1>6, CommandParts
  <2>2. QED
    BY <1>6, <2>1 DEF GetVolumeMounts
<1>11. QED
  BY <1>7, <1>8, <1>9, <1>10 DEF CanStart, p

(* The secret of a setting has the keys the pod needs. *)
LEMMA SecretKeys ==
    ASSUME NEW s
    PROVE  /\ s.metaurl # "" => "metaurl" \in DOMAIN NewSecret(s)
           /\ s.rsaKey # "" => "encrypt_rsa_key" \in DOMAIN NewSecret(s)
           /\ s.initConfig # "" => "init_config" \in DOMAIN NewSecret(s)
<1> DEFINE own == [metaurl |-> s.metaurl, secretkey |-> s.secretKey,
                   token |-> s.token, passphrase |-> s.passphrase,
                   encrypt_rsa_key |-> s.rsaKey, init_config |-> s.initConfig]
<1>1. DOMAIN NewSecret(s) = NonEmpty(own) \cup DOMAIN s.envs
  <2> DEFINE kept == [k \in NonEmpty(own) |-> own[k]]
  <2>1. NewSecret(s) = Over(kept, s.envs)
    BY DEF NewSecret
  <2>2. DOMAIN kept = NonEmpty(own)
    OBVIOUS
  <2>3. DOMAIN Over(kept, s.envs) = DOMAIN kept \cup DOMAIN s.envs
    BY OverFacts, Zenon
  <2> HIDE DEF kept, own
  <2>4. QED
    BY <2>1, <2>2, <2>3
<1>2. /\ own["metaurl"] = s.metaurl /\ own["encrypt_rsa_key"] = s.rsaKey
      /\ own["init_config"] = s.initConfig
      /\ {"metaurl", "encrypt_rsa_key", "init_config"} \subseteq DOMAIN own
  OBVIOUS
<1> HIDE DEF own
<1>3. QED
  BY <1>1, <1>2 DEF NonEmpty

(* Written over or not, a secret has the keys of all that was written. *)
LEMMA StoredKeys ==
    ASSUME NoneIsNoMap, NEW v \in Volumes, NEW s, Publish(v, s)
    PROVE  /\ Stored(v, s) # None
           /\ Needs(secrets[v], Stored(v, s))
           /\ \A sec : data[v] # None /\ Needs(sec, data[v])
                         => Needs(sec, Stored(v, s))
<1>1. Needs(secrets[v], NewSecret(s))
  <2>1. PICK ro \in ReadOnly : s = SettingOf(v, ro) /\ s.ok /\ s.usePod
    BY DEF Publish
  <2> DEFINE opts == flags[v] \cup (IF ro THEN {"ro"} ELSE {})
  <2>2. s = GetSettings(secrets[v], volCtx[v], opts)
    BY <2>1 DEF SettingOf
  <2> HIDE DEF opts
  <2>3. /\ s.metaurl = Val(secrets[v], "metaurl")
        /\ s.rsaKey = Val(secrets[v], "encrypt_rsa_key")
        /\ s.initConfig = Val(secrets[v], "initconfig")
    BY <2>1, <2>2, SettingFacts
  <2>4. QED
    BY <2>3, SecretKeys DEF Needs
<1>2. NewSecret(s) # None
  BY DEF NoneIsNoMap, NewSecret
<1>3. Over(data[v], NewSecret(s)) # None
  BY Zenon DEF NoneIsNoMap
<1>4. DOMAIN Over(data[v], NewSecret(s)) = DOMAIN data[v] \cup DOMAIN NewSecret(s)
  BY OverFacts, Zenon
<1>5. CASE data[v] = None
  BY <1>1, <1>2, <1>5 DEF Stored
<1>6. CASE data[v] # None
  BY <1>1, <1>3, <1>4, <1>6 DEF Stored, Needs
<1>7. QED
  BY <1>5, <1>6

(* A pod starts with every secret that has what it was built from, and the *)
(* secret has the keys of all that was written since it was created.       *)
StartInv ==
    \A v \in Volumes :
        /\ Exists(v) => \A d : Needs(made[v], d) => CanStart(pod[v], d)
        /\ data[v] = None => wrote[v] = {}
        /\ \A sec \in wrote[v] : Needs(sec, data[v])

LEMMA NextStarts ==
    ASSUME NoneIsNoMap, NoKeyOption, TypeInv, StartInv, [Next]_vars
    PROVE  StartInv'
<1> SUFFICES ASSUME NEW v \in Volumes
             PROVE  /\ pod'[v] # None =>
                          \A d : Needs(made'[v], d) => CanStart(pod'[v], d)
                    /\ data'[v] = None => wrote'[v] = {}
                    /\ \A sec \in wrote'[v] : Needs(sec, data'[v])
  BY DEF StartInv, Exists
<1>0. /\ pod[v] # None => \A d : Needs(made[v], d) => CanStart(pod[v], d)
      /\ data[v] = None => wrote[v] = {}
      /\ \A sec \in wrote[v] : Needs(sec, data[v])
  BY DEF StartInv, Exists
<1>1. ASSUME NEW s, Publish(v, s), Written(v, s)
      PROVE  data'[v] # None /\ \A sec \in wrote'[v] : Needs(sec, data'[v])
  <2>1. data'[v] = Stored(v, s) /\ wrote'[v] = wrote[v] \cup {secrets[v]}
    BY <1>1 DEF Written
  <2>2. QED
    BY <1>0, <1>1, <2>1, StoredKeys
<1>2. CASE Built(v)
  <2>1. PICK s : /\ Publish(v, s) /\ Written(v, s)
                 /\ pod'[v] = NewMountPod(s, ParsePodResources(s.volCtx))
                 /\ made'[v] = secrets[v]
    BY <1>2 DEF Built
  <2>2. ASSUME NEW d, Needs(made'[v], d) PROVE CanStart(pod'[v], d)
    <3>1. \A r : CanStart(NewMountPod(s, r), d)
      BY <2>1, <2>2, NewPodStarts
    <3>2. QED
      BY <2>1, <3>1
  <2>3. QED
    BY <1>1, <2>1, <2>2
<1>3. CASE Shared(v)
  BY <1>0, <1>1, <1>3 DEF Shared
<1>4. CASE Left(v)
  BY <1>0, <1>4 DEF Left
<1>5. CASE Collected(v)
  BY <1>0, <1>5 DEF Collected
<1>6. QED
  BY <1>2, <1>3, <1>4, <1>5, PodSteps

(* Every mount pod can start, and start again, whatever happened to the    *)
(* secrets of its volume since it was built: what a later publish writes   *)
(* over its secret takes no key away, be the secret one that outlived      *)
(* another pod, or one created again after it was collected.               *)
THEOREM PodCanStartHolds ==
    ASSUME NoneIsNoMap, NoKeyOption
    PROVE  Spec => []PodCanStart
<1>1. Init => TypeInv /\ StartInv
  <2>1. Init => StartInv
    BY DEF Init, StartInv, Exists
  <2>2. QED
    BY <2>1, InitType
<1>2. TypeInv /\ StartInv /\ [Next]_vars => TypeInv' /\ StartInv'
  BY NextType, NextStarts
<1>3. StartInv => PodCanStart
  <2>1. SUFFICES ASSUME StartInv
                 PROVE  \A v \in Volumes : HasItsSecret(v) => CanStart(pod[v], data[v])
    BY DEF PodCanStart, CanStart
  <2>2. QED
    BY <2>1 DEF StartInv, HasItsSecret
<1>4. QED
  BY <1>1, <1>2, <1>3, PTL DEF Spec

-----------------------------------------------------------------------------
(* The command of the init container *)

(* The environment of a volume has none of the variables that stand for    *)
(* the values of its secret.                                               *)
EnvsApart ==
    \A sec \in SecretSets : Parses(Val(sec, "envs")) =>
        DOMAIN ParseYamlOrJson(Val(sec, "envs"))
          \cap {"metaurl", "secretkey", "token", "passphrase"} = {}

(* The arguments of a command in the pod, run with the secret d. *)
LEMMA ExpandFacts ==
    ASSUME NEW m, NEW K, NEW a, NEW names, NEW d
    PROVE  Expand(InPod(m, K, a, names), d) =
              Local(m, K \ DOMAIN names, a)
              \cup {<<k, Val(d, names[k])>> : k \in K \cap DOMAIN names}
<1> DEFINE cmd == InPod(m, K, a, names)
           S == K \ DOMAIN names
<1>1. /\ cmd.args = Local(m, S, a)
      /\ cmd.vars = {<<k, names[k]>> : k \in K \cap DOMAIN names}
  BY DEF InPod
<1> HIDE DEF cmd
<1>2. Expand(cmd, d) = Local(m, S, a)
                       \cup {<<k, Val(d, names[k])>> : k \in K \cap DOMAIN names}
  <2>1. {<<p[1], Val(d, p[2])>> : p \in cmd.vars}
          = {<<k, Val(d, names[k])>> : k \in K \cap DOMAIN names}
    <3>1. \A p \in cmd.vars : \E k \in K \cap DOMAIN names :
             <<p[1], Val(d, p[2])>> = <<k, Val(d, names[k])>>
      BY <1>1
    <3>2. ASSUME NEW k \in K \cap DOMAIN names
          PROVE  \E p \in cmd.vars :
                    <<p[1], Val(d, p[2])>> = <<k, Val(d, names[k])>>
      <4> DEFINE p == <<k, names[k]>>
      <4>1. p \in cmd.vars /\ p[1] = k /\ p[2] = names[k]
        BY <1>1
      <4> HIDE DEF p
      <4>2. <<p[1], Val(d, p[2])>> = <<k, Val(d, names[k])>>
        BY <4>1
      <4>3. QED
        BY <4>1, <4>2
    <3>3. QED
      BY <3>1, <3>2
  <2>2. QED
    BY <1>1, <2>1 DEF Expand
<1>3. QED
  BY <1>2 DEF cmd

(* Auth and format, as the command here and the one in the pod. *)
Noupdate(sec) == Val(sec, "storage") = "" \/ Val(sec, "bucket") = ""

LEMMA PrepareForms ==
    ASSUME NEW sec
    PROVE  /\ "metaurl" \in DOMAIN sec =>
                 /\ Prepare(sec).run = Local(sec, FormatKeys(sec), Noupdate(sec))
                 /\ Prepare(sec).cmd = InPod(sec, FormatKeys(sec), Noupdate(sec),
                                             FormatStripped)
           /\ "metaurl" \notin DOMAIN sec /\ Val(sec, "token") = "" =>
                 Prepare(sec).run = {} /\ Prepare(sec).cmd = NoCmd
           /\ "metaurl" \notin DOMAIN sec /\ Val(sec, "token") # "" =>
                 LET m == Compatible(sec)
                 IN  /\ Prepare(sec).run = Local(m, AuthKeys(m), NoUpdateConfig)
                     /\ Prepare(sec).cmd = InPod(m, AuthKeys(m), NoUpdateConfig,
                                                 AuthStripped)
<1>1. CASE "metaurl" \in DOMAIN sec
  BY <1>1 DEF Prepare, CeFormat, Noupdate
<1>2. CASE "metaurl" \notin DOMAIN sec /\ Val(sec, "token") = ""
  BY <1>2 DEF Prepare
<1>3. CASE "metaurl" \notin DOMAIN sec /\ Val(sec, "token") # ""
  BY <1>3 DEF Prepare, AuthFs
<1>4. QED
  BY <1>1, <1>2, <1>3

LEMMA KeyFacts ==
    ASSUME NEW m
    PROVE  /\ "no-update" \notin FormatKeys(m) \cup AuthKeys(m)
           /\ "encrypt-rsa-key" \notin FormatKeys(m) \cup AuthKeys(m)
           /\ "metaurl" \in FormatKeys(m) /\ "metaurl" \notin AuthKeys(m)
           /\ "name" \in FormatKeys(m) \cap AuthKeys(m)
BY DEF FormatKeys, AuthKeys

(* What the secret of a pod has for the variables of the init container. *)
Names == {"metaurl", "secretkey", "token", "passphrase"}

LEMMA SecretVals ==
    ASSUME NEW s, DOMAIN s.envs \cap Names = {}
    PROVE  /\ Val(NewSecret(s), "metaurl") = s.metaurl
           /\ Val(NewSecret(s), "secretkey") = s.secretKey
           /\ Val(NewSecret(s), "token") = s.token
           /\ Val(NewSecret(s), "passphrase") = s.passphrase
           /\ \A k \in Names \cap DOMAIN NewSecret(s) : NewSecret(s)[k] # ""
<1> DEFINE own == [metaurl |-> s.metaurl, secretkey |-> s.secretKey,
                   token |-> s.token, passphrase |-> s.passphrase,
                   encrypt_rsa_key |-> s.rsaKey, init_config |-> s.initConfig]
           kept == [k \in NonEmpty(own) |-> own[k]]
<1>1. NewSecret(s) = Over(kept, s.envs)
  BY DEF NewSecret
<1>2. /\ own["metaurl"] = s.metaurl /\ own["secretkey"] = s.secretKey
      /\ own["token"] = s.token /\ own["passphrase"] = s.passphrase
      /\ {"metaurl", "secretkey", "token", "passphrase"} \subseteq DOMAIN own
  OBVIOUS
<1> HIDE DEF own
<1>3. DOMAIN kept = NonEmpty(own) /\ \A k \in NonEmpty(own) : kept[k] = own[k]
  OBVIOUS
<1> HIDE DEF kept
<1>4. ASSUME NEW k \in Names
      PROVE  /\ Val(NewSecret(s), k) = own[k]
             /\ k \in DOMAIN NewSecret(s) => NewSecret(s)[k] # ""
  <2>1. k \notin DOMAIN s.envs /\ k \in DOMAIN own
    BY <1>2 DEF Names
  <2>2. /\ k \in DOMAIN NewSecret(s) <=> k \in DOMAIN kept
        /\ k \in DOMAIN kept => NewSecret(s)[k] = kept[k]
    <3>1. /\ DOMAIN Over(kept, s.envs) = DOMAIN kept \cup DOMAIN s.envs
          /\ \A j \in DOMAIN kept \ DOMAIN s.envs :
                Over(kept, s.envs)[j] = kept[j]
      BY OverFacts, Zenon
    <3>2. QED
      BY <1>1, <2>1, <3>1
  <2>3. QED
    BY <1>3, <2>1, <2>2 DEF Val, NonEmpty
<1>5. QED
  BY <1>2, <1>4 DEF Names

(* AuthFs and the secret of the pod take the secret key from the same      *)
(* place when it has one spelling.                                         *)
LEMMA OneKey ==
    ASSUME NEW sec, OneSpelling(sec)
    PROVE  /\ "metaurl" \in DOMAIN sec => SecretKey(sec) = Val(sec, "secret-key")
           /\ "metaurl" \notin DOMAIN sec =>
                 LET m == Compatible(sec)
                 IN  /\ Val(m, "secretkey") = SecretKey(sec)
                     /\ Val(m, "token") = Val(sec, "token")
                     /\ Val(m, "passphrase") = Val(sec, "passphrase")
<1>1. "metaurl" \in DOMAIN sec => SecretKey(sec) = Val(sec, "secret-key")
  BY DEF OneSpelling, SecretKey, Val
<1>2. ASSUME "metaurl" \notin DOMAIN sec
      PROVE  LET m == Compatible(sec)
             IN  /\ Val(m, "secretkey") = SecretKey(sec)
                 /\ Val(m, "token") = Val(sec, "token")
                 /\ Val(m, "passphrase") = Val(sec, "passphrase")
  <2> DEFINE moved == {k \in DOMAIN OldSpelling : OldSpelling[k] \in DOMAIN sec}
             old == {OldSpelling[k] : k \in moved}
             m == Compatible(sec)
  <2>1. /\ DOMAIN OldSpelling = {"accesskey", "secretkey"}
        /\ OldSpelling["accesskey"] = "access-key"
        /\ OldSpelling["secretkey"] = "secret-key"
    BY DEF OldSpelling
  <2>2. /\ "token" \notin moved /\ "passphrase" \notin moved
        /\ "token" \notin old /\ "passphrase" \notin old /\ "secretkey" \notin old
        /\ "secretkey" \in moved <=> "secret-key" \in DOMAIN sec
    BY <2>1
  <2>3. m = [k \in (DOMAIN sec \ old) \cup moved |->
               IF k \in moved THEN sec[OldSpelling[k]] ELSE sec[k]]
    BY DEF Compatible
  <2> HIDE DEF m, moved, old
  <2>4. Val(m, "token") = Val(sec, "token")
    BY <2>2, <2>3 DEF Val
  <2>5. Val(m, "passphrase") = Val(sec, "passphrase")
    BY <2>2, <2>3 DEF Val
  <2>6. CASE "secret-key" \in DOMAIN sec
    <3>1. "secretkey" \notin DOMAIN sec
      BY <1>2, <2>6 DEF OneSpelling
    <3>2. Val(m, "secretkey") = sec["secret-key"]
      BY <2>1, <2>2, <2>3, <2>6 DEF Val
    <3>3. QED
      BY <2>4, <2>5, <2>6, <3>1, <3>2 DEF SecretKey, Val, m
  <2>7. CASE "secret-key" \notin DOMAIN sec
    <3>1. Val(m, "secretkey") = Val(sec, "secretkey")
      BY <2>2, <2>3, <2>7 DEF Val
    <3>2. SecretKey(sec) = Val(sec, "secretkey")
      BY <2>7 DEF SecretKey, Val
    <3>3. QED
      BY <2>4, <2>5, <3>1, <3>2 DEF m
  <2>8. QED
    BY <2>6, <2>7
<1>3. QED
  BY <1>1, <1>2

(* What secrets sec put into the variable x. *)
ValueOf(sec, x) == IF x = "secretkey" THEN SecretKey(sec) ELSE Val(sec, x)

(* The variables of a secret d to which the secrets in W were written: the *)
(* value of one of them, and none only if none of them has one.            *)
ValuesFrom(d, W) ==
    \A x \in Names :
        /\ Val(d, x) # "" => \E sec \in W : Val(d, x) = ValueOf(sec, x)
        /\ Val(d, x) = "" => \A sec \in W : ValueOf(sec, x) = ""

LEMMA StoredValues ==
    ASSUME EnvsApart, TypeInv, NEW v \in Volumes, NEW s, Publish(v, s)
    PROVE  /\ data[v] = None => ValuesFrom(Stored(v, s), {secrets[v]})
           /\ \A W : data[v] # None /\ ValuesFrom(data[v], W)
                       => ValuesFrom(Stored(v, s), W \cup {secrets[v]})
<1> DEFINE sec == secrets[v]
           new == NewSecret(s)
<1>1. PICK ro \in ReadOnly : s = SettingOf(v, ro) /\ s.ok /\ s.usePod
  BY DEF Publish
<1> DEFINE opts == flags[v] \cup (IF ro THEN {"ro"} ELSE {})
<1>2. s = GetSettings(sec, volCtx[v], opts) /\ sec \in SecretSets
  BY <1>1 DEF SettingOf, TypeInv
<1> HIDE DEF opts, sec
<1>3. /\ s.metaurl = Val(sec, "metaurl") /\ s.secretKey = SecretKey(sec)
      /\ s.token = Val(sec, "token") /\ s.passphrase = Val(sec, "passphrase")
  BY <1>1, <1>2, SettingFacts
<1>4. DOMAIN s.envs \cap Names = {}
  <2>1. Parses(Val(sec, "envs"))
    BY <1>1, <1>2, SettingFacts
  <2>2. DOMAIN s.envs \subseteq DOMAIN ParseYamlOrJson(Val(sec, "envs"))
                                \cup {"JFS_NO_CHECK_OBJECT_STORAGE"}
    BY <1>1, <1>2, SettingFacts
  <2>3. DOMAIN ParseYamlOrJson(Val(sec, "envs")) \cap Names = {}
    BY <1>2, <2>1 DEF EnvsApart, Names
  <2>4. QED
    BY <2>2, <2>3 DEF Names
<1>5. /\ \A x \in Names : Val(new, x) = ValueOf(sec, x)
      /\ \A x \in Names \cap DOMAIN new : new[x] # ""
  <2>1. /\ Val(new, "metaurl") = s.metaurl /\ Val(new, "secretkey") = s.secretKey
        /\ Val(new, "token") = s.token /\ Val(new, "passphrase") = s.passphrase
        /\ \A x \in Names \cap DOMAIN new : new[x] # ""
    BY <1>4, SecretVals
  <2> HIDE DEF new
  <2>2. QED
    BY <1>3, <2>1 DEF Names, ValueOf
<1>6. Stored(v, s) = IF data[v] = None THEN new ELSE Over(data[v], new)
  BY DEF Stored
<1> HIDE DEF new
<1>7. ValuesFrom(new, {sec})
  BY <1>5 DEF ValuesFrom
<1>8. ASSUME NEW W, NEW d, ValuesFrom(d, W)
      PROVE  ValuesFrom(Over(d, new), W \cup {sec})
  <2>1. /\ DOMAIN Over(d, new) = DOMAIN d \cup DOMAIN new
        /\ \A j \in DOMAIN new : Over(d, new)[j] = new[j]
        /\ \A j \in DOMAIN d \ DOMAIN new : Over(d, new)[j] = d[j]
    BY OverFacts, Zenon
  <2>2. \A x \in Names : Val(Over(d, new), x) =
           IF ValueOf(sec, x) # "" THEN ValueOf(sec, x) ELSE Val(d, x)
    BY <1>5, <2>1 DEF Val
  <2>3. QED
    BY <1>8, <2>2 DEF ValuesFrom
<1>9. QED
  BY <1>6, <1>7, <1>8 DEF sec

(* cmd is the command of auth or format for secrets b, if there is one. *)
Runs(cmd, b) ==
    \/ cmd = NoCmd
    \/ /\ cmd.vars = Prepare(b).cmd.vars
       /\ cmd.args \cup {RsaKeyFile} = Prepare(b).cmd.args \cup {RsaKeyFile}

(* What is given in either spelling. *)
LEMMA GivenFacts ==
    ASSUME NEW sec
    PROVE  /\ SecretKey(sec) # "" => /\ SecretKey(sec) \in Given(sec, "secretkey")
                                     /\ SecretKey(sec) \in Given(sec, "secret-key")
           /\ \A x \in {"metaurl", "token", "passphrase"} :
                 Val(sec, x) # "" => Val(sec, x) \in Given(sec, x)
<1>1. SecretKey(sec) # "" =>
         \E k \in {"secretkey", "secret-key"} \cap DOMAIN sec : SecretKey(sec) = sec[k]
  BY DEF SecretKey, Val
<1>2. \A x \in {"metaurl", "token", "passphrase"} :
         Val(sec, x) # "" => Given(sec, x) = {sec[k] : k \in {x} \cap DOMAIN sec}
  BY DEF Given
<1>3. QED
  BY <1>1, <1>2 DEF Given, Val

(* Two commands that are the same but for the private key file. *)
SameButKeyFile(c, e) ==
    /\ c.vars = e.vars
    /\ c.args \cup {RsaKeyFile} = e.args \cup {RsaKeyFile}

(* The arguments have the same options, and other values only for those of *)
(* the keys K.                                                             *)
DifferInValue(args, run, m, K, names, d) ==
    /\ Options(args) = Options(run)
    /\ \A p \in args \ run : \E k \in K :
          p = <<k, Val(d, names[k])>> /\ p[2] # Val(m, k)

(* The arguments of command c in the pod against those of the command here *)
(* when each variable stands for the option it has the name of.            *)
LEMMA ArgumentFacts ==
    ASSUME NEW m, NEW K, NEW a, NEW names, NEW d, NEW c, NEW e,
           "no-update" \notin K, "encrypt-rsa-key" \notin K,
           e = InPod(m, K, a, names), SameButKeyFile(c, e)
    PROVE  DifferInValue(Expand(c, d) \ {RsaKeyFile}, Local(m, K, a), m,
                         K \cap DOMAIN names, names, d)
<1> DEFINE args == Expand(c, d) \ {RsaKeyFile}
           run  == Local(m, K, a)
           S    == K \ DOMAIN names
           V    == {<<k, Val(d, names[k])>> : k \in K \cap DOMAIN names}
<1>1. Expand(e, d) = Local(m, S, a) \cup V
  BY ExpandFacts
<1>2. RsaKeyFile \notin Local(m, S, a) \cup V
  BY DEF Local, RsaKeyFile
<1>3. args = Local(m, S, a) \cup V
  <2>1. Expand(c, d) \cup {RsaKeyFile} = Expand(e, d) \cup {RsaKeyFile}
    BY DEF Expand, SameButKeyFile
  <2> HIDE DEF S, V
  <2>2. QED
    BY <1>1, <1>2, <2>1
<1> DEFINE flag == IF a THEN {<<"no-update", "">>} ELSE {}
<1>4. /\ args = {<<k, Val(m, k)>> : k \in S} \cup flag \cup V
      /\ run = {<<k, Val(m, k)>> : k \in K} \cup flag
  BY <1>3 DEF Local
<1> HIDE DEF args, run
<1>5. \A p \in args \ run : \E k \in K \cap DOMAIN names :
         p = <<k, Val(d, names[k])>> /\ p[2] # Val(m, k)
  <2>1. SUFFICES ASSUME NEW p \in args \ run
                 PROVE  \E k \in K \cap DOMAIN names :
                           p = <<k, Val(d, names[k])>> /\ p[2] # Val(m, k)
    OBVIOUS
  <2>2. PICK k \in K \cap DOMAIN names : p = <<k, Val(d, names[k])>>
    BY <1>4, <2>1
  <2>3. p # <<k, Val(m, k)>>
    BY <1>4, <2>1
  <2>4. QED
    BY <2>2, <2>3
<1>6. Options(args) = Options(run)
  <2>1. ASSUME NEW p \in args PROVE \E q \in run : q[1] = p[1]
    <3>1. CASE p \in run
      BY <3>1
    <3>2. CASE p \notin run
      <4>1. PICK k \in K \cap DOMAIN names : p = <<k, Val(d, names[k])>>
        BY <1>5, <3>2
      <4>2. <<k, Val(m, k)>> \in run
        BY <1>4
      <4>3. <<k, Val(m, k)>>[1] = p[1]
        BY <4>1
      <4>4. QED
        BY <4>2, <4>3
    <3>3. QED
      BY <3>1, <3>2
  <2>2. ASSUME NEW q \in run PROVE \E p \in args : p[1] = q[1]
    <3>1. CASE q \in args
      BY <3>1
    <3>2. CASE q \notin args
      <4>1. PICK k \in K : q = <<k, Val(m, k)>>
        BY <1>4, <3>2
      <4>2. k \in K \cap DOMAIN names
        BY <1>4, <3>2, <4>1
      <4>3. <<k, Val(d, names[k])>> \in args
        BY <1>4, <4>2
      <4>4. <<k, Val(d, names[k])>>[1] = q[1]
        BY <4>1
      <4>5. QED
        BY <4>3, <4>4
    <3>3. QED
      BY <3>1, <3>2
  <2>3. QED
    BY <2>1, <2>2 DEF Options
<1>7. QED
  BY <1>5, <1>6 DEF args, run, DifferInValue

(* A command of secrets b, run with a secret to which b was written. *)
LEMMA CommandOfSecret ==
    ASSUME NEW b, OneSpelling(b), NEW c, c # NoCmd, Runs(c, b),
           NEW d, NEW W, b \in W, ValuesFrom(d, W)
    PROVE  LET args == Expand(c, d) \ {RsaKeyFile}
               run  == Prepare(b).run
           IN  /\ Options(args) = Options(run)
               /\ \A p \in args \ run : \E sec \in W \ {b} : p[2] \in Given(sec, p[1])
<1> DEFINE args == Expand(c, d) \ {RsaKeyFile}
<1>1. SameButKeyFile(c, Prepare(b).cmd)
  BY DEF Runs, SameButKeyFile
<1>2. ASSUME NEW m, NEW K, NEW a, NEW names,
             "no-update" \notin K, "encrypt-rsa-key" \notin K,
             Prepare(b).cmd = InPod(m, K, a, names),
             Prepare(b).run = Local(m, K, a),
             \A k \in DOMAIN names : /\ names[k] \in Names
                                     /\ ValueOf(b, names[k]) = Val(m, k)
                                     /\ \A sec : ValueOf(sec, names[k]) # "" =>
                                           ValueOf(sec, names[k]) \in Given(sec, k)
      PROVE  /\ Options(args) = Options(Prepare(b).run)
             /\ \A p \in args \ Prepare(b).run :
                   \E sec \in W \ {b} : p[2] \in Given(sec, p[1])
  <2>0. DifferInValue(args, Local(m, K, a), m, K \cap DOMAIN names, names, d)
    BY <1>1, <1>2, ArgumentFacts
  <2>1. /\ Options(args) = Options(Local(m, K, a))
        /\ \A p \in args \ Local(m, K, a) : \E k \in K \cap DOMAIN names :
              p = <<k, Val(d, names[k])>> /\ p[2] # Val(m, k)
    BY <2>0, Zenon DEF DifferInValue
  <2> HIDE DEF args
  <2>2. ASSUME NEW p \in args \ Local(m, K, a)
        PROVE  \E sec \in W \ {b} : p[2] \in Given(sec, p[1])
    <3>1. PICK k \in K \cap DOMAIN names :
             p = <<k, Val(d, names[k])>> /\ p[2] # Val(m, k)
      BY <2>1, <2>2
    <3>2. PICK x \in Names : x = names[k]
      BY <1>2
    <3>3. Val(d, x) # ValueOf(b, x) /\ p[1] = k /\ p[2] = Val(d, x)
      BY <1>2, <3>1, <3>2
    <3>4. PICK sec \in W : Val(d, x) = ValueOf(sec, x) /\ Val(d, x) # ""
      BY <3>3 DEF ValuesFrom
    <3>5. sec # b
      BY <3>3, <3>4
    <3>6. p[2] \in Given(sec, p[1])
      BY <1>2, <3>2, <3>3, <3>4
    <3>7. QED
      BY <3>4, <3>5, <3>6
  <2>3. QED
    BY <1>2, <2>1, <2>2
<1>3. CASE "metaurl" \in DOMAIN b
  <2>1. /\ DOMAIN FormatStripped = {"secret-key", "metaurl"}
        /\ FormatStripped["secret-key"] = "secretkey"
        /\ FormatStripped["metaurl"] = "metaurl"
    BY DEF FormatStripped
  <2>2. SecretKey(b) = Val(b, "secret-key")
    BY <1>3, OneKey
  <2>3. ASSUME NEW k \in DOMAIN FormatStripped
        PROVE  /\ FormatStripped[k] \in Names
               /\ ValueOf(b, FormatStripped[k]) = Val(b, k)
               /\ \A sec : ValueOf(sec, FormatStripped[k]) # "" =>
                     ValueOf(sec, FormatStripped[k]) \in Given(sec, k)
    BY <2>1, <2>2, <2>3, GivenFacts DEF Names, ValueOf
  <2>4. /\ Prepare(b).run = Local(b, FormatKeys(b), Noupdate(b))
        /\ Prepare(b).cmd = InPod(b, FormatKeys(b), Noupdate(b), FormatStripped)
    BY <1>3, PrepareForms
  <2>5. "no-update" \notin FormatKeys(b) /\ "encrypt-rsa-key" \notin FormatKeys(b)
    BY KeyFacts
  <2> HIDE DEF args
  <2>6. QED
    BY <1>2, <2>3, <2>4, <2>5 DEF args
<1>4. CASE "metaurl" \notin DOMAIN b /\ Val(b, "token") # ""
  <2> DEFINE m == Compatible(b)
  <2>1. /\ DOMAIN AuthStripped = {"token", "secretkey", "passphrase"}
        /\ \A k \in DOMAIN AuthStripped : AuthStripped[k] = k
    BY DEF AuthStripped
  <2>2. /\ Val(m, "secretkey") = SecretKey(b)
        /\ Val(m, "token") = Val(b, "token")
        /\ Val(m, "passphrase") = Val(b, "passphrase")
    BY <1>4, OneKey
  <2>3. /\ Prepare(b).run = Local(m, AuthKeys(m), NoUpdateConfig)
        /\ Prepare(b).cmd = InPod(m, AuthKeys(m), NoUpdateConfig, AuthStripped)
    BY <1>4, PrepareForms
  <2> HIDE DEF m
  <2>4. ASSUME NEW k \in DOMAIN AuthStripped
        PROVE  /\ AuthStripped[k] \in Names
               /\ ValueOf(b, AuthStripped[k]) = Val(m, k)
               /\ \A sec : ValueOf(sec, AuthStripped[k]) # "" =>
                     ValueOf(sec, AuthStripped[k]) \in Given(sec, k)
    BY <2>1, <2>2, <2>4, GivenFacts DEF Names, ValueOf
  <2>5. "no-update" \notin AuthKeys(m) /\ "encrypt-rsa-key" \notin AuthKeys(m)
    BY KeyFacts
  <2> HIDE DEF args
  <2>6. QED
    BY <1>2, <2>3, <2>4, <2>5 DEF args
<1>5. CASE "metaurl" \notin DOMAIN b /\ Val(b, "token") = ""
  <2>1. Prepare(b).run = {} /\ Prepare(b).cmd = NoCmd
    BY <1>5, PrepareForms
  <2>2. c.vars = {} /\ c.args \subseteq {RsaKeyFile}
    BY <1>1, <2>1 DEF NoCmd, SameButKeyFile
  <2>3. args = {}
    BY <2>2 DEF Expand
  <2>4. QED
    BY <2>1, <2>3 DEF Options
<1>6. QED
  BY <1>3, <1>4, <1>5

(* The init container of a new pod runs the command of its setting. *)
LEMMA BuiltRuns ==
    ASSUME NEW s, NEW b, s.formatCmd \in {NoCmd, Prepare(b).cmd}
    PROVE  Runs(GetInitContainer(s).cmd, b)
<1>1. CASE s.formatCmd = NoCmd
  BY <1>1 DEF GetInitContainer, Runs
<1>2. CASE s.formatCmd # NoCmd
  <2> DEFINE c == s.formatCmd
  <2>1. c = Prepare(b).cmd
    BY <1>2
  <2>2. \/ GetInitContainer(s).cmd = c
        \/ GetInitContainer(s).cmd = [c EXCEPT !.args = @ \cup {RsaKeyFile}]
    BY <1>2 DEF GetInitContainer
  <2>3. DOMAIN c = {"args", "vars"}
    BY <2>1 DEF Prepare, CeFormat, AuthFs, InPod, NoCmd
  <2> HIDE DEF c
  <2>4. /\ GetInitContainer(s).cmd.vars = c.vars
        /\ GetInitContainer(s).cmd.args \in {c.args, c.args \cup {RsaKeyFile}}
    BY <2>2, <2>3
  <2>5. QED
    BY <2>1, <2>4 DEF Runs
<1>3. QED
  BY <1>1, <1>2

(* The pod runs the command of the secrets it was built from, and the      *)
(* variables of its secret have values that were written to it.            *)
CommandInv ==
    \A v \in Volumes :
        /\ Exists(v) => Runs(pod[v].init.cmd, made[v])
        /\ data[v] = None => wrote[v] = {}
        /\ data[v] # None => ValuesFrom(data[v], wrote[v])

LEMMA NextCommand ==
    ASSUME NoneIsNoMap, EnvsApart, TypeInv, CommandInv, [Next]_vars
    PROVE  CommandInv'
<1> SUFFICES ASSUME NEW v \in Volumes
             PROVE  /\ pod'[v] # None => Runs(pod'[v].init.cmd, made'[v])
                    /\ data'[v] = None => wrote'[v] = {}
                    /\ data'[v] # None => ValuesFrom(data'[v], wrote'[v])
  BY DEF CommandInv, Exists
<1>0. /\ pod[v] # None => Runs(pod[v].init.cmd, made[v])
      /\ data[v] = None => wrote[v] = {}
      /\ data[v] # None => ValuesFrom(data[v], wrote[v])
  BY DEF CommandInv, Exists
<1>1. ASSUME NEW s, Publish(v, s), Written(v, s)
      PROVE  data'[v] # None /\ ValuesFrom(data'[v], wrote'[v])
  <2>1. data'[v] = Stored(v, s) /\ wrote'[v] = wrote[v] \cup {secrets[v]}
    BY <1>1 DEF Written
  <2>2. Stored(v, s) # None
    BY <1>1, StoredKeys
  <2>3. CASE data[v] = None
    <3>1. wrote'[v] = {secrets[v]}
      BY <1>0, <2>1, <2>3
    <3>2. QED
      BY <1>1, <2>1, <2>2, <2>3, <3>1, StoredValues
  <2>4. CASE data[v] # None
    <3>1. ValuesFrom(Stored(v, s), wrote[v] \cup {secrets[v]})
      BY <1>0, <1>1, <2>4, StoredValues, Zenon
    <3>2. QED
      BY <2>1, <2>2, <3>1
  <2>5. QED
    BY <2>3, <2>4
<1>2. CASE Built(v)
  <2>1. PICK s : /\ Publish(v, s) /\ Written(v, s)
                 /\ pod'[v] = NewMountPod(s, ParsePodResources(s.volCtx))
                 /\ made'[v] = secrets[v]
    BY <1>2 DEF Built
  <2>2. s.formatCmd \in {NoCmd, Prepare(secrets[v]).cmd}
    <3>1. PICK ro \in ReadOnly : s = SettingOf(v, ro) /\ s.ok /\ s.usePod
      BY <2>1 DEF Publish
    <3> DEFINE opts == flags[v] \cup (IF ro THEN {"ro"} ELSE {})
    <3>2. s = GetSettings(secrets[v], volCtx[v], opts)
      BY <3>1 DEF SettingOf
    <3> HIDE DEF opts
    <3>3. s.formatCmd = IF FormatInPod THEN Prepare(secrets[v]).cmd ELSE NoCmd
      BY <3>1, <3>2, SettingFacts
    <3>4. QED
      BY <3>3
  <2>3. pod'[v].init = GetInitContainer(s)
    <3>1. \A r : NewMountPod(s, r).init = GetInitContainer(s)
      BY PodParts
    <3>2. QED
      BY <2>1, <3>1
  <2>4. Runs(pod'[v].init.cmd, made'[v])
    BY <2>1, <2>2, <2>3, BuiltRuns
  <2>5. QED
    BY <1>1, <2>1, <2>4
<1>3. CASE Shared(v)
  BY <1>0, <1>1, <1>3 DEF Shared
<1>4. CASE Left(v)
  BY <1>0, <1>4 DEF Left
<1>5. CASE Collected(v)
  BY <1>0, <1>5 DEF Collected
<1>6. QED
  BY <1>2, <1>3, <1>4, <1>5, PodSteps

(* The init container of a mount pod gives auth or format every option the *)
(* plugin itself would give it with the secrets the pod was built from,    *)
(* and no value but theirs or that of a publish that wrote the secret      *)
(* since: however secrets are replaced and the secret of the pod is        *)
(* written over, kept from another pod or collected and created again, as  *)
(* long as no environment of a volume takes the variables of its secret.   *)
THEOREM SameCommandHolds ==
    ASSUME NoneIsNoMap, EnvsApart
    PROVE  Spec => []SameCommand
<1>1. Init => TypeInv /\ CommandInv
  <2>1. Init => CommandInv
    BY DEF Init, CommandInv, Exists
  <2>2. QED
    BY <2>1, InitType
<1>2. TypeInv /\ CommandInv /\ [Next]_vars => TypeInv' /\ CommandInv'
  BY NextType, NextCommand
<1>3. CommandInv => SameCommand
  <2>1. SUFFICES ASSUME CommandInv, NEW v \in Volumes, HasItsSecret(v),
                        pod[v].init.cmd # NoCmd, OneSpelling(made[v])
                 PROVE  LET run  == Prepare(made[v]).run
                            args == Expand(pod[v].init.cmd, data[v]) \ {RsaKeyFile}
                        IN  /\ Options(args) = Options(run)
                            /\ \A a \in args \ run :
                                  \E s \in wrote[v] \ {made[v]} :
                                     a[2] \in Given(s, a[1])
    BY DEF SameCommand
  <2>2. /\ made[v] \in wrote[v] /\ Runs(pod[v].init.cmd, made[v])
        /\ ValuesFrom(data[v], wrote[v])
    BY <2>1 DEF CommandInv, HasItsSecret
  <2>3. QED
    BY <2>1, <2>2, CommandOfSecret
<1>4. QED
  BY <1>1, <1>2, <1>3, PTL DEF Spec
=============================================================================
