----------------------------- MODULE MCSettings -----------------------------
(* Model-checking instances of MountPodSettings: secrets as in the         *)
(* documented examples of both editions, and some that are refused.        *)
EXTENDS MountPodSettings, TLC

(* community edition, with two key pairs *)
Ce1 == "name" :> "fs" @@ "metaurl" :> "m" @@ "storage" :> "s3"
       @@ "bucket" :> "b" @@ "access-key" :> "a1" @@ "secret-key" :> "s1"
Ce2 == "access-key" :> "a2" @@ "secret-key" :> "s2" @@ Ce1
CeFull == "encrypt_rsa_key" :> "r" @@ "envs" :> "passphraseEnv"
          @@ "storage" :> "ceph" @@ "configs" :> "cephConf" @@ Ce1
CeNoBucket == "name" :> "fs" @@ "metaurl" :> "m" @@ "block-size" :> "4"

(* cloud service, with both spellings of the keys *)
EeOld == "name" :> "fs" @@ "token" :> "k" @@ "access-key" :> "a3"
         @@ "secret-key" :> "s3"
EeBoth == "secretkey" :> "s1" @@ EeOld
EeRsa == "name" :> "fs" @@ "token" :> "k" @@ "accesskey" :> "a1"
         @@ "secretkey" :> "s1" @@ "bucket" :> "b" @@ "passphrase" :> "p"
         @@ "encrypt_rsa_key" :> "r"
EeInit == "name" :> "fs" @@ "initconfig" :> "i"

(* no secrets, no metaurl *)
Refused == {EmptyMap, "metaurl" :> "" @@ Ce1}

SomeSecrets == {Ce1, Ce2, CeFull, CeNoBucket,
                EeOld, EeBoth, EeRsa, EeInit} \cup Refused

Texts == "passphraseEnv" :> ("JFS_RSA_PASSPHRASE" :> "p")
         @@ "cephConf" :> ("ceph-conf" :> "/etc/ceph")
         @@ "labels" :> ("team" :> "a")

Dirs == "cache-dir=/d1:/d2" :> {"d1", "d2"} @@ "cache-dir" :> {}

SomeFlags == {{"metrics", "cache-dir=/d1:/d2"}, {"cache-dir"}}
SomeCtxs == {"labels" :> "labels" @@ "delay" :> "1h",
             "mount-cpu-limit" :> "bad"}

(* a volume that says nothing, and one that asks for more *)
TwoCtxs == {EmptyMap,
            "mount-cpu-limit" :> "5000m" @@ "mount-memory-request" :> "2Gi"}

(* the plugin's container as deployed: deploy/k8s.yaml *)
Deployed == [Limits   |-> ("cpu" :> "2000m" @@ "memory" :> "5Gi"),
             Requests |-> ("cpu" :> "1000m" @@ "memory" :> "1Gi")]

Symmetry == Permutations(Targets)
=============================================================================
