----------------------------- MODULE MountTable -----------------------------
(***************************************************************************)
(* The mount points of one node, as the CSI node plugin changes and reads  *)
(* them: the source path of each volume, where its mount pod mounts        *)
(* JuiceFS, and the paths that are bound to it.  A path is the target path *)
(* of an application pod and a volume, or the path kubelet binds for a     *)
(* volumeMount with a subPath.                                             *)
(*                                                                         *)
(* Mounts on one path pile up; stat and umount see the topmost.  A bind    *)
(* keeps the file system it was made from: it does not follow the source   *)
(* path to a client that is started later, which is why it is recovered.   *)
(***************************************************************************)
EXTENDS Integers, Sequences

CONSTANTS
    Vols,        \* persistent volumes, each with its mount pod on the node
    Apps,        \* application pods
    Uses,        \* pairs <<a, v>>: pod a uses volume v
    SubUses,     \* the pairs of Uses that use a subPath of the volume
    NamePrefix   \* pairs <<v, w>>: the name of v is a proper prefix of w's

ASSUME UseAssumption ==
    /\ Uses \subseteq Apps \X Vols
    /\ SubUses \subseteq Uses
    /\ NamePrefix \subseteq Vols \X Vols

VARIABLES
    mounts,   \* mounts[p]: the mounts on path p, the topmost last
    dirs,     \* the paths that exist as directories
    src,      \* src[v]: what is at the source path of v
    subdirs   \* the volumes that hold the directory the subPaths name

tableVars == <<mounts, dirs, src, subdirs>>

(* live: JuiceFS and its client runs; dead: the client is gone (ENOTCONN); *)
(* removed: the bound directory was removed (ENOENT); local: a directory   *)
(* of the node's own disk.                                                 *)
Entry == [vol : Vols, st : {"live", "dead", "removed", "local"}]

Target(a, v) == [kind |-> "target", app |-> a, vol |-> v]
SubPath(a, v) == [kind |-> "subpath", app |-> a, vol |-> v]

Paths == {Target(u[1], u[2]) : u \in Uses}
         \cup {SubPath(u[1], u[2]) : u \in SubUses}

MountTableInit ==
    /\ mounts = [p \in Paths |-> <<>>]
    /\ dirs = {}
    /\ src = [v \in Vols |-> "none"]
    /\ subdirs = Vols

Top(p) == mounts[p][Len(mounts[p])].st

Pop(s) == SubSeq(s, 1, Len(s) - 1)

(* os.Stat of a path *)
Stat(p) ==
    IF mounts[p] = <<>> THEN IF p \in dirs THEN "ok" ELSE "notExist"
    ELSE CASE Top(p) = "dead"    -> "corrupt"
           [] Top(p) = "removed" -> "notExist"
           [] OTHER              -> "ok"

(* What a bind of the source path of v shows.  Of a source whose client is *)
(* gone only the root can be bound, of a source path that is not there     *)
(* nothing.                                                                *)
Shown(v) == CASE src[v] = "live" -> {"live"}
              [] src[v] = "dir"  -> {"local"}
              [] src[v] = "dead" -> {"dead"}
              [] src[v] = "none" -> {}

MountFails(p, v) == p \notin dirs \/ src[v] \in {"none", "dead"}

BindMount(p, v, st) ==
    /\ p \in dirs
    /\ mounts' = [mounts EXCEPT ![p] = Append(@, [vol |-> v, st |-> st])]
    /\ UNCHANGED <<dirs, src, subdirs>>

(* umount takes the topmost mount off, if there is one *)
Umount(p) ==
    /\ mounts' = [mounts EXCEPT ![p] = IF @ = <<>> THEN @ ELSE Pop(@)]
    /\ UNCHANGED <<dirs, src, subdirs>>

(* CleanupMountPoint: a path that stat does not find is left alone.  A     *)
(* mount, working or corrupt, is taken off and the directory removed if    *)
(* nothing is left on it.  A bind of a directory of the same disk is not   *)
(* recognised as a mount, so that only the removal is tried.               *)
AfterCleanup(p) ==
    IF mounts[p] = <<>> \/ Top(p) \in {"removed", "local"} THEN mounts[p]
    ELSE Pop(mounts[p])

CleanupMountPoint(p) ==
    /\ mounts' = [mounts EXCEPT ![p] = AfterCleanup(p)]
    /\ dirs' = IF AfterCleanup(p) = <<>> THEN dirs \ {p} ELSE dirs
    /\ UNCHANGED <<src, subdirs>>

CleanupFails(p) ==
    /\ AfterCleanup(p) # <<>>
    /\ Stat(p) # "notExist"

(* The client of volume v is gone: what it served fails from now on. *)
ClientDies(v) ==
    /\ mounts' = [p \in Paths |-> [i \in DOMAIN mounts[p] |->
                    LET e == mounts[p][i]
                    IN  IF e.vol = v /\ e.st \in {"live", "removed"}
                        THEN [e EXCEPT !.st = "dead"] ELSE e]]
    /\ src' = [src EXCEPT ![v] = IF @ = "live" THEN "dead" ELSE @]
    /\ UNCHANGED <<dirs, subdirs>>

(* A workload removes the directory the subPaths of volume v name. *)
DirectoryRemoved(v) ==
    /\ v \in subdirs
    /\ subdirs' = subdirs \ {v}
    /\ mounts' = [p \in Paths |-> [i \in DOMAIN mounts[p] |->
                    LET e == mounts[p][i]
                    IN  IF p.kind = "subpath" /\ e.vol = v /\ e.st = "live"
                        THEN [e EXCEPT !.st = "removed"] ELSE e]]
    /\ UNCHANGED <<dirs, src>>

=============================================================================
