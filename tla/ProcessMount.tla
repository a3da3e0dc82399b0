---------------------------- MODULE ProcessMount ----------------------------
(***************************************************************************)
(* JuiceFS mounted by a process of the driver itself, on the mount path of *)
(* one volume (ProcessMount.JMount, community edition).  Every process     *)
(* serves a device of its own; the mounts on the mount path pile up, and a *)
(* process ends with the last mount of its device.                         *)
(*                                                                         *)
(* Nothing orders the calls: gRPC handlers run JMount, CreateVol and what  *)
(* follows concurrently, on the same mount path.                           *)
(***************************************************************************)
EXTENDS Integers, Sequences, FiniteSets

CONSTANTS
    Workers,     \* gRPC handler threads
    Nobody,      \* no thread
    MaxDevs,     \* bound on the devices there are at a time
    Faults,      \* the fault classes the environment may exercise
    MaxFaults    \* bound on the number of one-shot faults

ASSUME ProcessAssumption ==
    /\ Nobody \notin Workers
    /\ MaxDevs \in Nat /\ MaxFaults \in Nat
    /\ Faults \subseteq {"clientCrash", "callTimeout", "slow", "format", "crash"}

VARIABLES
    base,      \* the devices mounted on the mount path, the topmost last
    starting,  \* devices of processes that have not mounted yet
    dead,      \* devices whose process died
    localDir,  \* the volume's directory exists under the mount path when
               \* nothing is mounted there
    pc,        \* pc[w]: where thread w is
    faults     \* one-shot faults so far

mountVars == <<base, starting, dead, localDir>>

Devs == 1..MaxDevs

Last(s) == s[Len(s)]
Pop(s) == SubSeq(s, 1, Len(s) - 1)

(* What a process that looks at the mount path finds. *)
Seen == CASE base = <<>>           -> "local"
          [] base # <<>> /\ Last(base) \in dead    -> "corrupt"
          [] base # <<>> /\ Last(base) \notin dead -> "juicefs"

(* A volume without a subPath is bound as the mount path itself, which     *)
(* always exists.                                                          *)
ProcessInit ==
    /\ base = <<>>
    /\ starting = {}
    /\ dead = {}
    /\ localDir \in BOOLEAN
    /\ faults = 0

OneShot(class) ==
    /\ class \in Faults
    /\ faults < MaxFaults
    /\ faults' = faults + 1

Goto(w, label) == pc' = [pc EXCEPT ![w] = label]

-----------------------------------------------------------------------------
(* JMount *)

(* A process is started, with a device of its own (the lowest that is      *)
(* free); stack is what is on the mount path.                              *)
Start(w, inUse, stack) ==
    /\ \E d \in Devs \ inUse :
          /\ \A e \in Devs \ inUse : d <= e
          /\ starting' = starting \cup {d}
    /\ base' = stack
    /\ dead' = dead \cap inUse
    /\ UNCHANGED localDir
    /\ Goto(w, "j_poll")

(* mutant: a mount path that is mounted already is an error *)
JMount_Refuse(w, inUse, fail) ==
    /\ pc[w] = "j_mount"
    /\ \/ Seen # "local" /\ fail /\ UNCHANGED mountVars
       \/ Seen = "local" /\ Start(w, inUse, base)

(* A corrupt mount path is an error; a mount that is there is unmounted    *)
(* first.  inUse: the devices that are mounted or about to be; fail: the   *)
(* answer of a call that fails here.                                       *)
JMount(w, inUse, fail) ==
    /\ pc[w] = "j_mount"
    /\ \/ Seen = "corrupt" /\ fail /\ UNCHANGED mountVars
       \/ Seen = "juicefs" /\ Goto(w, "j_umount") /\ UNCHANGED mountVars
       \/ Seen = "local" /\ Start(w, inUse, base)

(* Whatever is on the mount path by now comes off; that nothing is there   *)
(* any more is an error.                                                   *)
JUnmount(w, inUse, fail) ==
    /\ pc[w] = "j_umount"
    /\ \/ base = <<>> /\ fail /\ UNCHANGED mountVars
       \/ base # <<>> /\ Start(w, inUse, Pop(base))

(* Wait until the mount point is ready: its inode is the root of a         *)
(* JuiceFS, whichever process mounted it.  The wait ends after 30 seconds. *)
JPoll(w, next, fail) ==
    /\ pc[w] = "j_poll"
    /\ \/ Seen = "juicefs" /\ Goto(w, next) /\ UNCHANGED faults
       \/ Seen = "corrupt" /\ fail /\ UNCHANGED faults
       \/ Seen = "local" /\ starting = {} /\ fail /\ UNCHANGED faults
       \/ Seen = "local" /\ starting # {} /\ fail /\ OneShot("slow")
    /\ UNCHANGED mountVars

-----------------------------------------------------------------------------
(* The processes (external) *)

ProcessMounts(d) ==
    /\ d \in starting
    /\ base' = Append(base, d)
    /\ starting' = starting \ {d}
    /\ UNCHANGED <<dead, localDir, faults>>

ProcessDies(d) ==
    /\ d \notin starting \cup dead
    /\ OneShot("clientCrash")
    /\ dead' = dead \cup {d}
    /\ UNCHANGED <<base, starting, localDir>>

=============================================================================
