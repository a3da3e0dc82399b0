---------------------------- MODULE StackProofs -----------------------------
(***************************************************************************)
(* Proofs about the stacks of mounts of Recovery: how high they get, and   *)
(* that the reconciler takes no working mount off.  For every set of       *)
(* volumes, pods, uses and threads, and all faults but a call that kubelet *)
(* gives up: a second NodePublishVolume beside it would bind once more.    *)
(***************************************************************************)
EXTENDS RecoveryProofs

(* Kubelet waits for its calls, and no volume's name is a prefix of        *)
(* another's.                                                              *)
Patient == NamePrefix = {} /\ "callTimeout" \notin Faults

UseOf(p) == <<p.app, p.vol>>

(* Every call is one kubelet waits for, and a publish is for a pod that is *)
(* not being deleted and a target that is not published.                   *)
AskedInv ==
    \A w \in Workers : call[w].pc # "idle" =>
        LET u == <<call[w].app, call[w].vol>>
        IN  /\ asked[u] = w
            /\ \/ call[w].pc \in {"u_loop", "u_clean", "u_ref"}
               \/ app[u[1]] \notin Leaving /\ vstate[u] = "uncertain"

(* What is mounted on the target of a pod that stays was published. *)
FreshInv ==
    \A u \in Uses : app[u[1]] \notin Leaving /\ vstate[u] # "published" =>
        mounts[T(u)] = <<>>

(* ItemInv, for subpaths as well. *)
OneItemInv ==
    \A it \in rec.items :
        /\ it.path.vol = rec.vol /\ it.path.app \notin rec.targets
        /\ \A other \in rec.items : other.path = it.path => other = it
        /\ ~it.bind => app[it.path.app] \in Leaving

(* A stack is no higher than the round knows, or has one mount; what the   *)
(* round will leave before it binds is one mount at most.                  *)
HeightInv ==
    \A p \in Paths :
        /\ Len(mounts[p]) <= 2
        /\ Unresolved(UseOf(p)) =>
              Len(mounts[p]) <= 1 \/ Len(mounts[p]) <= rec.mis[p].count
        /\ \A it \in rec.items :
              it.path = p /\ it.bind => Len(mounts[p]) <= it.pops + 1

(* CountInv, for subpaths as well. *)
LeftInv ==
    \A p \in Paths : app[p.app] \notin Leaving =>
        /\ Unresolved(UseOf(p)) => rec.mis[p].count <= Len(mounts[p])
        /\ \A it \in rec.items : it.path = p => it.pops < Len(mounts[p])

(* A mount shows the volume of its path, and does not work when it was     *)
(* bound from a client that is gone or is below one that lost its client.  *)
DeadInv ==
    \A p \in Paths : \A i \in DOMAIN mounts[p] :
        /\ mounts[p][i].vol = p.vol
        /\ src[p.vol] = "dead" => mounts[p][i].st # "live"
        /\ \A j \in DOMAIN mounts[p] :
              i < j /\ mounts[p][j].st = "dead" => mounts[p][i].st # "live"

(* Nothing works on a path that is about to be bound again. *)
BrokenInv ==
    \A it \in rec.items : it.bind /\ app[it.path.app] \notin Leaving =>
        \A i \in DOMAIN mounts[it.path] : mounts[it.path][i].st # "live"

StackInv ==
    /\ AskedInv /\ FreshInv /\ OneItemInv /\ HeightInv /\ LeftInv /\ DeadInv
    /\ BrokenInv

-----------------------------------------------------------------------------
(* What a step does to the mount table *)

(* The stacks stay as they are, and no client is gone. *)
Unmoved ==
    mounts' = mounts /\ \A v \in Vols : src'[v] = "dead" => src[v] = "dead"

(* The volume of the path is bound to it. *)
Binds(p) == \E st \in Shown(p.vol) : BindMount(p, p.vol, st)

(* The topmost mount of the path is taken off. *)
Pops(p) ==
    /\ mounts[p] # <<>>
    /\ mounts' = [mounts EXCEPT ![p] = Pop(mounts[p])]
    /\ src' = src

(* A path is that of a use, a target or a subpath of it. *)
LEMMA UsePath ==
    /\ \A p \in Paths : UseOf(p) \in Uses /\ p.app \in Apps /\ p.vol \in Vols
    /\ \A u \in Uses : UseOf(T(u)) = u
    /\ \A p \in Paths : p.kind # "subpath" => p = T(UseOf(p))
    /\ \A u \in SubUses :
          /\ SubPath(u[1], u[2]) \in Paths /\ UseOf(SubPath(u[1], u[2])) = u
          /\ SubPath(u[1], u[2]).app = u[1] /\ SubPath(u[1], u[2]).vol = u[2]
<1>1. \A u \in Uses : /\ UseOf(T(u)) = u /\ T(u).app \in Apps /\ T(u).vol \in Vols
  BY PathFacts DEF UseOf
<1>2. \A u \in SubUses :
          /\ SubPath(u[1], u[2]) \in Paths /\ UseOf(SubPath(u[1], u[2])) = u
          /\ SubPath(u[1], u[2]).app = u[1] /\ SubPath(u[1], u[2]).vol = u[2]
          /\ u[1] \in Apps /\ u[2] \in Vols /\ u \in Uses
  BY PathFacts DEF UseOf, SubPath
<1>3. ASSUME NEW p \in Paths
      PROVE  \/ \E u \in Uses : p = T(u)
             \/ \E u \in SubUses : p = SubPath(u[1], u[2])
  BY DEF Paths, T
<1>4. ASSUME NEW p \in Paths
      PROVE  UseOf(p) \in Uses /\ p.app \in Apps /\ p.vol \in Vols
  BY <1>1, <1>2, <1>3
<1>5. ASSUME NEW p \in Paths, p.kind # "subpath" PROVE p = T(UseOf(p))
  BY <1>1, <1>5, PathFacts
<1>6. QED
  BY <1>1, <1>2, <1>4, <1>5

LEMMA UmountMoves ==
    ASSUME TableInv, NEW p \in Paths, Umount(p)
    PROVE  Unmoved \/ Pops(p)
<1>1. CASE mounts[p] = <<>>
  BY <1>1 DEF Umount, TableInv, Unmoved
<1>2. CASE mounts[p] # <<>>
  BY <1>2 DEF Umount, Pops
<1>3. QED
  BY <1>1, <1>2

LEMMA CallMoves ==
    ASSUME TypeInv, EntryInv, CallInv, NEW w \in Workers, Call(w)
    PROVE  \/ Unmoved
           \/ PublishBind(w) /\ Binds(PathOf(w))
           \/ Pops(PathOf(w)) /\ app[PathOf(w).app] \in Leaving
<1> DEFINE p == PathOf(w)
<1>1. TableInv
  BY DEF TableInv, TypeInv, TypeOK, SrcStates
<1>2. call[w].pc # "idle"
  BY CallShape
<1>3. p \in Paths /\ p.vol = call[w].vol /\ p.app = call[w].app
  BY <1>2, CallPath, PathFacts
<1>4. CASE mounts' = mounts /\ src' = src
  BY <1>4 DEF Unmoved
<1>5. CASE CreateVol(w)
  <2>1. /\ mounts' = mounts
        /\ \/ src' = src
           \/ src' = [src EXCEPT ![call[w].vol] = IF @ = "none" THEN "dir" ELSE @]
    BY <1>5 DEF CreateVol
  <2>2. QED
    BY <1>1, <2>1 DEF Unmoved, TableInv
<1>6. CASE PublishBind(w)
  BY <1>3, <1>4, <1>6 DEF PublishBind, Binds
<1>7. CASE UmountLoop(w) \/ CleanTarget(w)
  <2>1. app[p.app] \in Leaving
    BY <1>3, <1>7 DEF UmountLoop, CleanTarget, CallInv
  <2>2. CASE UmountLoop(w)
    BY <1>1, <1>3, <2>1, <2>2, UmountMoves DEF UmountLoop
  <2>3. CASE CleanTarget(w)
    <3>1. src' = src /\ mounts' = [mounts EXCEPT ![p] = AfterCleanup(p)]
      BY <2>3 DEF CleanTarget, CleanupMountPoint
    <3>2. CASE mounts[p] = <<>> \/ Top(p) \in {"removed", "local"}
      BY <1>1, <1>4, <3>1, <3>2 DEF AfterCleanup, TableInv
    <3>3. CASE ~(mounts[p] = <<>> \/ Top(p) \in {"removed", "local"})
      BY <2>1, <3>1, <3>3 DEF AfterCleanup, Pops
    <3>4. QED
      BY <3>2, <3>3
  <2>4. QED
    BY <1>7, <2>2, <2>3
<1>8. QED
  BY <1>4, <1>5, <1>6, <1>7
  DEF Call, PublishMkdir, JMount, WaitReady, JUmount, tableVars

LEMMA ReconcileMoves ==
    ASSUME TypeInv, EntryInv, OneItemInv, Reconcile
    PROVE  \/ Unmoved
           \/ \E it \in rec.items : RecBind(it) /\ it.bind /\ Binds(it.path)
           \/ \E it \in rec.items : RecUmount(it) /\ Pops(it.path)
<1>1. TableInv
  BY DEF TableInv, TypeInv, TypeOK, SrcStates
<1>2. CASE UNCHANGED tableVars
  BY <1>2 DEF Unmoved, tableVars
<1>3. CASE RecClean
  <2>1. mounts' = mounts /\ (src' = src \/ src' = [src EXCEPT ![rec.vol] = "none"])
    BY <1>3 DEF RecClean, CleanSource, tableVars
  <2>2. QED
    BY <1>1, <2>1 DEF Unmoved, TableInv
<1>4. ASSUME NEW it \in rec.items, RecUmount(it)
      PROVE  Unmoved \/ Pops(it.path)
  <2>1. it.path \in Paths
    BY <1>4 DEF TypeInv, TypeOK, Item
  <2>2. QED
    BY <1>1, <1>4, <2>1, UmountMoves DEF RecUmount
<1>5. ASSUME NEW it \in rec.items, RecBind(it)
      PROVE  Unmoved \/ (it.bind /\ Binds(it.path))
  <2>1. it.path.vol = rec.vol
    BY <1>5 DEF OneItemInv
  <2>2. CASE /\ it.bind
             /\ \E st \in Shown(rec.vol) : BindMount(it.path, rec.vol, st)
    BY <2>1, <2>2, Zenon DEF Binds
  <2>3. \/ /\ it.bind
           /\ \E st \in Shown(rec.vol) : BindMount(it.path, rec.vol, st)
        \/ UNCHANGED tableVars
    BY <1>5, Zenon DEF RecBind
  <2>4. CASE UNCHANGED tableVars
    BY <2>4 DEF Unmoved, tableVars
  <2>5. QED
    BY <2>2, <2>3, <2>4, Zenon
<1>6. QED
  BY <1>2, <1>3, <1>4, <1>5
  DEF Reconcile, RecList, RecParse, RecEnd, RecRun, PodDeletedHandler,
      RecLock, RecRecreate, PodReadyHandler, RecRecovered, RecResolve

LEMMA TableMoves ==
    ASSUME TypeInv, EntryInv, CallInv, OneItemInv, [Next]_vars
    PROVE  \/ Unmoved
           \/ \E v \in Vols : ClientDies(v) \/ DirectoryRemoved(v)
           \/ \E w \in Workers : PublishBind(w) /\ Binds(PathOf(w))
           \/ \E it \in rec.items : RecBind(it) /\ it.bind /\ Binds(it.path)
           \/ \E u \in SubUses : SubPathBind(u)
           \/ \E p \in Paths :
                 /\ Pops(p)
                 /\ \/ app[p.app] \in Leaving
                    \/ \E it \in rec.items : RecUmount(it) /\ it.path = p
<1>1. TableInv
  BY DEF TableInv, TypeInv, TypeOK, SrcStates
<1>2. CASE UNCHANGED tableVars
  BY <1>2 DEF Unmoved, tableVars
<1>3. ASSUME NEW w \in Workers, Call(w) PROVE PathOf(w) \in Paths
  BY <1>3, CallShape, CallPath
<1>4. ASSUME NEW it \in rec.items PROVE it.path \in Paths
  BY DEF TypeInv, TypeOK, Item
<1>5. ASSUME NEW v \in Vols, ClientUp(v) \/ PreStop(v) \/ LateClean(v)
      PROVE  Unmoved
  BY <1>1, <1>5 DEF ClientUp, PreStop, LateClean, CleanSource, Unmoved, TableInv
<1>6. ASSUME NEW u \in SubUses, SubPathClean(u)
      PROVE  \/ Unmoved
             \/ \E p \in Paths : Pops(p) /\ app[p.app] \in Leaving
  <2> DEFINE p == SubPath(u[1], u[2])
  <2>1. p \in Paths /\ p.app = u[1]
    BY UsePath
  <2>2. Umount(p) /\ app[u[1]] = "deleting"
    BY <1>6 DEF SubPathClean
  <2> HIDE DEF p
  <2>3. QED
    BY <1>1, <2>1, <2>2, UmountMoves DEF Leaving
<1>7. CASE \E w \in Workers : Call(w)
  BY <1>3, <1>7, CallMoves
<1>8. CASE Reconcile
  BY <1>4, <1>8, ReconcileMoves
<1>9. CASE \E v \in Vols : Container(v) \/ Probe(v) \/ LateClean(v)
  BY <1>2, <1>5, <1>9 DEF Container, ClientStops, PodGone, Probe
<1>10. CASE \E a \in Apps : Kubelet(a) \/ AppDelete(a)
  BY <1>2, <1>6, <1>10
  DEF Kubelet, AppCreate, AppRun, AppGone, AppDelete, AppStep, AskPublish,
      AskUnpublish, Ask
<1>11. CASE Fault
  BY <1>2, <1>11 DEF Fault, ClientCrash, UserDelete, RemoveDir, CallTimeout,
                     PluginCrash
<1>12. QED
  BY <1>2, <1>7, <1>8, <1>9, <1>10, <1>11 DEF Next, vars

-----------------------------------------------------------------------------
(* What a step does to one stack *)

(* A client that is gone takes the mounts of its volume with it, a         *)
(* directory that is removed those that work: nothing works that did not.  *)
LEMMA InPlaceMoves ==
    ASSUME TableInv, NEW v \in Vols, NEW p \in Paths,
           ClientDies(v) \/ DirectoryRemoved(v)
    PROVE  /\ DOMAIN mounts'[p] = DOMAIN mounts[p]
           /\ \A i \in DOMAIN mounts[p] :
                 LET e == mounts[p][i]
                     f == mounts'[p][i]
                 IN  /\ f.vol = e.vol
                     /\ f.st = "live" => e.st = "live"
                     /\ f.st = "live" /\ e.vol = v => ~ClientDies(v)
                     /\ f.st = "dead" /\ e.st # "dead" => ClientDies(v) /\ e.vol = v
<1>1. \A i \in DOMAIN mounts[p] : mounts[p][i] \in Entry
  <2>1. mounts[p] \in Seq(Entry)
    BY DEF TableInv
  <2>2. QED
    BY <2>1, LenProperties
<1>2. \A e \in Entry : \A st \in {"dead", "removed"} :
          [e EXCEPT !.st = st].st = st /\ [e EXCEPT !.st = st].vol = e.vol
  BY DEF Entry
<1>3. CASE ClientDies(v)
  <2>1. mounts'[p] = [i \in DOMAIN mounts[p] |->
          LET e == mounts[p][i]
          IN  IF e.vol = v /\ e.st \in {"live", "removed"}
              THEN [e EXCEPT !.st = "dead"] ELSE e]
    BY <1>3 DEF ClientDies
  <2>2. DOMAIN mounts'[p] = DOMAIN mounts[p]
    BY <2>1
  <2>3. ASSUME NEW i \in DOMAIN mounts[p]
        PROVE  LET e == mounts[p][i]
                   f == mounts'[p][i]
               IN  /\ f.vol = e.vol
                   /\ f.st = "live" => e.st = "live" /\ e.vol # v
                   /\ f.st = "dead" /\ e.st # "dead" => e.vol = v
    <3> DEFINE e == mounts[p][i]
    <3>1. e \in Entry
      BY <1>1
    <3>2. CASE e.vol = v /\ e.st \in {"live", "removed"}
      <4>1. mounts'[p][i] = [e EXCEPT !.st = "dead"]
        BY <2>1, <3>2
      <4> HIDE DEF e
      <4>2. mounts'[p][i].st = "dead" /\ mounts'[p][i].vol = e.vol
        BY <1>2, <3>1, <4>1
      <4>3. QED
        BY <3>2, <4>2 DEF e
    <3>3. CASE ~(e.vol = v /\ e.st \in {"live", "removed"})
      <4>1. mounts'[p][i] = e
        BY <2>1, <3>3
      <4>2. QED
        BY <3>3, <4>1
    <3>4. QED
      BY <3>2, <3>3
  <2>4. QED
    BY <1>3, <2>2, <2>3
<1>4. CASE DirectoryRemoved(v) /\ ~ClientDies(v)
  <2>1. mounts'[p] = [i \in DOMAIN mounts[p] |->
          LET e == mounts[p][i]
          IN  IF p.kind = "subpath" /\ e.vol = v /\ e.st = "live"
              THEN [e EXCEPT !.st = "removed"] ELSE e]
    BY <1>4 DEF DirectoryRemoved
  <2>2. DOMAIN mounts'[p] = DOMAIN mounts[p]
    BY <2>1
  <2>3. ASSUME NEW i \in DOMAIN mounts[p]
        PROVE  LET e == mounts[p][i]
                   f == mounts'[p][i]
               IN  /\ f.vol = e.vol
                   /\ f.st = "live" => e.st = "live"
                   /\ f.st = "dead" => e.st = "dead"
    <3> DEFINE e == mounts[p][i]
    <3>1. e \in Entry
      BY <1>1
    <3>2. CASE p.kind = "subpath" /\ e.vol = v /\ e.st = "live"
      <4>1. mounts'[p][i] = [e EXCEPT !.st = "removed"]
        BY <2>1, <3>2
      <4> HIDE DEF e
      <4>2. mounts'[p][i].st = "removed" /\ mounts'[p][i].vol = e.vol
        BY <1>2, <3>1, <4>1
      <4>3. QED
        BY <4>2 DEF e
    <3>3. CASE ~(p.kind = "subpath" /\ e.vol = v /\ e.st = "live")
      <4>1. mounts'[p][i] = e
        BY <2>1, <3>3
      <4>2. QED
        BY <4>1
    <3>4. QED
      BY <3>2, <3>3
  <2>4. QED
    BY <1>4, <2>2, <2>3
<1>5. QED
  BY <1>3, <1>4

LEMMA BindMoves ==
    ASSUME TableInv, NEW p \in Paths, Binds(p)
    PROVE  \E st \in Shown(p.vol) :
              /\ mounts[p] \in Seq(Entry) /\ Len(mounts[p]) \in Nat
              /\ DOMAIN mounts[p] = 1..Len(mounts[p])
              /\ Len(mounts'[p]) = Len(mounts[p]) + 1
              /\ DOMAIN mounts'[p] = 1..(Len(mounts[p]) + 1)
              /\ \A i \in DOMAIN mounts[p] : mounts'[p][i] = mounts[p][i]
              /\ mounts'[p][Len(mounts[p]) + 1] = [vol |-> p.vol, st |-> st]
              /\ \A q \in Paths : q # p => mounts'[q] = mounts[q]
              /\ src' = src
<1>1. PICK st \in Shown(p.vol) : BindMount(p, p.vol, st)
  BY DEF Binds
<1> DEFINE e == [vol |-> p.vol, st |-> st]
<1>2. /\ mounts' = [mounts EXCEPT ![p] = Append(mounts[p], e)]
      /\ src' = src /\ mounts[p] \in Seq(Entry)
      /\ mounts \in [Paths -> Seq(Entry)]
  BY <1>1 DEF BindMount, TableInv
<1>3. e \in Entry
  <2>1. p.vol \in Vols
    BY UsePath
  <2>2. st \in {"live", "local", "dead"}
    BY <2>1, ShownFacts DEF TableInv
  <2>3. QED
    BY <2>1, <2>2 DEF Entry
<1>e. e = [vol |-> p.vol, st |-> st]
  OBVIOUS
<1> HIDE DEF e
<1>4. /\ Len(mounts[p]) \in Nat /\ DOMAIN mounts[p] = 1..Len(mounts[p])
      /\ Append(mounts[p], e) \in Seq(Entry)
      /\ Len(Append(mounts[p], e)) = Len(mounts[p]) + 1
      /\ DOMAIN Append(mounts[p], e) = 1..(Len(mounts[p]) + 1)
      /\ \A i \in 1..Len(mounts[p]) : Append(mounts[p], e)[i] = mounts[p][i]
      /\ Append(mounts[p], e)[Len(mounts[p]) + 1] = e
  BY <1>2, <1>3, AppendProperties, LenProperties
<1>5. /\ mounts'[p] = Append(mounts[p], e)
      /\ \A q \in Paths : q # p => mounts'[q] = mounts[q]
  BY <1>2
<1>6. QED
  BY <1>2, <1>4, <1>5, <1>e

LEMMA PopMoves ==
    ASSUME TableInv, NEW p \in Paths, Pops(p)
    PROVE  /\ Len(mounts[p]) \in Nat \ {0}
           /\ Len(mounts'[p]) = Len(mounts[p]) - 1
           /\ DOMAIN mounts'[p] \subseteq DOMAIN mounts[p]
           /\ \A i \in DOMAIN mounts'[p] : mounts'[p][i] = mounts[p][i]
           /\ \A q \in Paths : q # p => mounts'[q] = mounts[q]
<1>1. mounts[p] \in Seq(Entry) /\ mounts[p] # <<>>
  BY DEF TableInv, Pops
<1>2. /\ mounts'[p] = Pop(mounts[p])
      /\ \A q \in Paths : q # p => mounts'[q] = mounts[q]
  BY DEF Pops, TableInv
<1>3. QED
  BY <1>1, <1>2, PopFacts

LEMMA SubPathMoves ==
    ASSUME TableInv, NEW u \in SubUses, SubPathBind(u)
    PROVE  LET p == SubPath(u[1], u[2]) IN
           /\ p \in Paths /\ mounts[p] = <<>> /\ Len(mounts'[p]) = 1
           /\ DOMAIN mounts'[p] = 1..1
           /\ T(u) \in Paths /\ Len(mounts[T(u)]) \in DOMAIN mounts[T(u)]
           /\ mounts'[p][1] = [vol |-> p.vol, st |-> Top(T(u))]
           /\ \A q \in Paths : q # p => mounts'[q] = mounts[q]
           /\ src' = src
<1> DEFINE p == SubPath(u[1], u[2])
           e == [vol |-> u[2], st |-> Top(T(u))]
<1>1. p \in Paths /\ p.vol = u[2] /\ u \in Uses /\ T(u) \in Paths
  BY UsePath, PathFacts
<1>2. /\ mounts[p] = <<>> /\ mounts' = [mounts EXCEPT ![p] = <<e>>]
      /\ src' = src /\ mounts[T(u)] # <<>>
  BY DEF SubPathBind, T
<1>3. Len(mounts[T(u)]) \in DOMAIN mounts[T(u)]
  <2>1. mounts[T(u)] \in Seq(Entry)
    BY <1>1 DEF TableInv
  <2>2. /\ Len(mounts[T(u)]) \in Nat \ {0}
        /\ DOMAIN mounts[T(u)] = 1..Len(mounts[T(u)])
    BY <1>2, <2>1, EmptySeq, LenProperties
  <2>3. QED
    BY <2>2
<1>e. e = [vol |-> p.vol, st |-> Top(T(u))]
  BY <1>1
<1> HIDE DEF e, p
<1>4. mounts'[p] = <<e>> /\ \A q \in Paths : q # p => mounts'[q] = mounts[q]
  BY <1>1, <1>2 DEF TableInv
<1>5. Len(<<e>>) = 1 /\ DOMAIN <<e>> = 1..1 /\ <<e>>[1] = e
  OBVIOUS
<1>6. QED
  BY <1>1, <1>2, <1>3, <1>4, <1>5, <1>e DEF p

-----------------------------------------------------------------------------
(* Mounts that work *)

LEMMA DeadStep ==
    ASSUME TypeInv, EntryInv, CallInv, OneItemInv, DeadInv, [Next]_vars
    PROVE  DeadInv'
<1>1. TableInv
  BY DEF TableInv, TypeInv, TypeOK, SrcStates
<1> DEFINE Good(p) ==
        \A i \in DOMAIN mounts'[p] :
            /\ mounts'[p][i].vol = p.vol
            /\ src'[p.vol] = "dead" => mounts'[p][i].st # "live"
            /\ \A j \in DOMAIN mounts'[p] :
                  i < j /\ mounts'[p][j].st = "dead" => mounts'[p][i].st # "live"
<1>2. SUFFICES ASSUME NEW p \in Paths PROVE Good(p)
  BY DEF DeadInv, Paths, Target, SubPath
<1>3. p.vol \in Vols
  BY UsePath
<1>4. \A i \in DOMAIN mounts[p] :
          /\ mounts[p][i].vol = p.vol
          /\ src[p.vol] = "dead" => mounts[p][i].st # "live"
          /\ \A j \in DOMAIN mounts[p] :
                i < j /\ mounts[p][j].st = "dead" => mounts[p][i].st # "live"
  BY DEF DeadInv
<1>5. CASE mounts'[p] = mounts[p] /\ (src'[p.vol] = "dead" => src[p.vol] = "dead")
  BY <1>4, <1>5
<1>6. CASE Unmoved
  BY <1>3, <1>5, <1>6 DEF Unmoved
<1>7. ASSUME NEW v \in Vols, ClientDies(v) \/ DirectoryRemoved(v) PROVE Good(p)
  <2>1. /\ DOMAIN mounts'[p] = DOMAIN mounts[p]
        /\ \A i \in DOMAIN mounts[p] :
              LET e == mounts[p][i]
                  f == mounts'[p][i]
              IN  /\ f.vol = e.vol
                  /\ f.st = "live" => e.st = "live"
                  /\ f.st = "live" /\ e.vol = v => ~ClientDies(v)
                  /\ f.st = "dead" /\ e.st # "dead" => ClientDies(v) /\ e.vol = v
    BY <1>1, <1>7, InPlaceMoves
  <2>2. CASE ClientDies(v) /\ p.vol = v
    <3>1. \A i \in DOMAIN mounts'[p] :
              mounts'[p][i].vol = p.vol /\ mounts'[p][i].st # "live"
      BY <1>4, <2>1, <2>2
    <3>2. QED
      BY <3>1
  <2>3. CASE ~(ClientDies(v) /\ p.vol = v)
    <3>1. src'[p.vol] = src[p.vol]
      BY <1>1, <1>3, <1>7, <2>3 DEF ClientDies, DirectoryRemoved, TableInv
    <3>2. \A i \in DOMAIN mounts'[p] :
              /\ i \in DOMAIN mounts[p] /\ mounts'[p][i].vol = p.vol
              /\ mounts'[p][i].st = "live" => mounts[p][i].st = "live"
              /\ mounts'[p][i].st = "dead" => mounts[p][i].st = "dead"
      BY <1>4, <2>1, <2>3
    <3>3. QED
      BY <1>4, <3>1, <3>2
  <2>4. QED
    BY <2>2, <2>3
<1>8. ASSUME NEW q \in Paths, Binds(q) PROVE Good(p)
  <2>1. PICK st \in Shown(q.vol) :
            /\ Len(mounts[q]) \in Nat
            /\ DOMAIN mounts[q] = 1..Len(mounts[q])
            /\ DOMAIN mounts'[q] = 1..(Len(mounts[q]) + 1)
            /\ \A i \in DOMAIN mounts[q] : mounts'[q][i] = mounts[q][i]
            /\ mounts'[q][Len(mounts[q]) + 1] = [vol |-> q.vol, st |-> st]
            /\ \A r \in Paths : r # q => mounts'[r] = mounts[r]
            /\ src' = src
    BY <1>1, <1>8, BindMoves
  <2>2. CASE p # q
    BY <1>5, <2>1, <2>2
  <2>3. CASE p = q
    <3> DEFINE n == Len(mounts[p]) + 1
    <3>1. /\ st = "live" => src[p.vol] = "live"
          /\ st = "dead" => src[p.vol] = "dead"
      <4>1. src[p.vol] \in SrcStates /\ st \in Shown(p.vol)
        BY <1>1, <1>3, <2>1, <2>3 DEF TableInv
      <4>2. QED
        BY <4>1 DEF SrcStates, Shown
    <3>2. /\ n \in DOMAIN mounts'[p] /\ mounts'[p][n].vol = p.vol
          /\ mounts'[p][n].st = st
          /\ \A i \in DOMAIN mounts'[p] : i = n \/ (i \in DOMAIN mounts[p] /\ i < n)
          /\ \A i \in DOMAIN mounts'[p] : ~(n < i)
      BY <2>1, <2>3
    <3>3. \A i \in DOMAIN mounts[p] : mounts'[p][i] = mounts[p][i]
      BY <2>1, <2>3
    <3> HIDE DEF n
    <3>4. ASSUME NEW i \in DOMAIN mounts'[p]
          PROVE  /\ mounts'[p][i].vol = p.vol
                 /\ src[p.vol] = "dead" => mounts'[p][i].st # "live"
      BY <1>4, <3>1, <3>2, <3>3
    <3>5. ASSUME NEW i \in DOMAIN mounts'[p], NEW j \in DOMAIN mounts'[p],
                 i < j, mounts'[p][j].st = "dead"
          PROVE  mounts'[p][i].st # "live"
      <4>1. CASE j = n
        <5>1. src[p.vol] = "dead"
          BY <3>1, <3>2, <3>5, <4>1
        <5>2. QED
          BY <3>4, <5>1
      <4>2. CASE j # n
        <5>1. j \in DOMAIN mounts[p] /\ i # n
          BY <3>2, <3>5, <4>2
        <5>2. i \in DOMAIN mounts[p]
          BY <3>2, <5>1
        <5>3. QED
          BY <1>4, <3>3, <3>5, <5>1, <5>2
      <4>3. QED
        BY <4>1, <4>2
    <3>6. QED
      BY <2>1, <3>4, <3>5
  <2>4. QED
    BY <2>2, <2>3
<1>9. ASSUME NEW q \in Paths, Pops(q) PROVE Good(p)
  <2>1. /\ DOMAIN mounts'[q] \subseteq DOMAIN mounts[q]
        /\ \A i \in DOMAIN mounts'[q] : mounts'[q][i] = mounts[q][i]
        /\ \A r \in Paths : r # q => mounts'[r] = mounts[r]
        /\ src' = src
    BY <1>1, <1>9, PopMoves DEF Pops
  <2>2. CASE p # q
    BY <1>5, <2>1, <2>2
  <2>3. CASE p = q
    BY <1>4, <2>1, <2>3
  <2>4. QED
    BY <2>2, <2>3
<1>10. ASSUME NEW u \in SubUses, SubPathBind(u) PROVE Good(p)
  <2> DEFINE q == SubPath(u[1], u[2])
             t == T(u)
  <2>1. /\ DOMAIN mounts'[q] = 1..1
        /\ t \in Paths /\ Len(mounts[t]) \in DOMAIN mounts[t]
        /\ mounts'[q][1] = [vol |-> q.vol, st |-> Top(t)]
        /\ \A r \in Paths : r # q => mounts'[r] = mounts[r]
        /\ src' = src
    BY <1>1, <1>10, SubPathMoves
  <2>2. t.vol = q.vol
    BY UsePath, PathFacts
  <2> HIDE DEF q, t
  <2>3. CASE p # q
    BY <1>5, <2>1, <2>3
  <2>4. CASE p = q
    <3>1. src[p.vol] = "dead" => Top(t) # "live"
      BY <2>1, <2>2, <2>4 DEF DeadInv, Top
    <3>2. /\ mounts'[p][1].vol = p.vol /\ mounts'[p][1].st = Top(t)
          /\ \A i \in DOMAIN mounts'[p] : i = 1
          /\ \A i, j \in DOMAIN mounts'[p] : ~(i < j)
      BY <2>1, <2>4
    <3>3. QED
      BY <2>1, <3>1, <3>2
  <2>5. QED
    BY <2>3, <2>4
<1>11. \A w \in Workers : PublishBind(w) => PathOf(w) \in Paths
  BY CallPath DEF PublishBind
<1>12. \A it \in rec.items : it.path \in Paths
  BY DEF TypeInv, TypeOK, Item
<1>13. QED
  BY <1>6, <1>7, <1>8, <1>9, <1>10, <1>11, <1>12, TableMoves

-----------------------------------------------------------------------------
(* How high a stack is *)

(* Nothing is on the path that was not, and nothing works that did not. *)
NoNew(p) ==
    \A i \in DOMAIN mounts'[p] :
        /\ i \in DOMAIN mounts[p]
        /\ mounts'[p][i].st = "live" => mounts[p][i].st = "live"

LEMMA Heights ==
    ASSUME TypeInv, EntryInv, CallInv, [Next]_vars, NEW p \in Paths
    PROVE  /\ Len(mounts[p]) \in Nat /\ Len(mounts'[p]) \in Nat
           /\ mounts[p] = <<>> <=> Len(mounts[p]) = 0
           /\ mounts'[p] = <<>> <=> Len(mounts'[p]) = 0
           /\ DOMAIN mounts[p] = 1..Len(mounts[p])
           /\ DOMAIN mounts'[p] = 1..Len(mounts'[p])
<1>1. mounts[p] \in Seq(Entry)
  BY DEF TypeInv, TypeOK
<1>2. mounts'[p] \in Seq(Entry)
  <2>1. TableInv'
    BY TableStep
  <2>2. QED
    BY <2>1 DEF TableInv
<1>3. QED
  BY <1>1, <1>2, LenProperties, EmptySeq

LEMMA HeightMoves ==
    ASSUME TypeInv, EntryInv, CallInv, OneItemInv, [Next]_vars, NEW p \in Paths
    PROVE  \/ Len(mounts'[p]) = Len(mounts[p]) /\ NoNew(p)
           \/ /\ Len(mounts'[p]) = Len(mounts[p]) - 1 /\ NoNew(p)
              /\ \/ app[p.app] \in Leaving
                 \/ \E it \in rec.items : RecUmount(it) /\ it.path = p
           \/ /\ Len(mounts'[p]) = Len(mounts[p]) + 1
              /\ \/ \E it \in rec.items : RecBind(it) /\ it.bind /\ it.path = p
                 \/ \E w \in Workers :
                       /\ call[w].pc = "p_bind" /\ PathOf(w) = p
                       /\ Return(w, "published")
                 \/ \E u \in SubUses : /\ SubPathBind(u) /\ p = SubPath(u[1], u[2])
                                       /\ mounts[p] = <<>>
<1>1. TableInv
  BY DEF TableInv, TypeInv, TypeOK, SrcStates
<1>2. /\ Len(mounts[p]) \in Nat /\ Len(mounts'[p]) \in Nat
      /\ mounts[p] = <<>> <=> Len(mounts[p]) = 0
      /\ DOMAIN mounts[p] = 1..Len(mounts[p])
      /\ DOMAIN mounts'[p] = 1..Len(mounts'[p])
  BY Heights
<1>3. CASE mounts'[p] = mounts[p]
  BY <1>3 DEF NoNew
<1>4. CASE Unmoved
  BY <1>3, <1>4 DEF Unmoved
<1>5. ASSUME NEW v \in Vols, ClientDies(v) \/ DirectoryRemoved(v)
      PROVE  Len(mounts'[p]) = Len(mounts[p]) /\ NoNew(p)
  <2>1. /\ DOMAIN mounts'[p] = DOMAIN mounts[p]
        /\ \A i \in DOMAIN mounts[p] :
              mounts'[p][i].st = "live" => mounts[p][i].st = "live"
    BY <1>1, <1>5, InPlaceMoves
  <2>2. NoNew(p)
    BY <2>1 DEF NoNew
  <2>3. \A m, n \in Nat : 1..m = 1..n => m = n
    <3>1. SUFFICES ASSUME NEW m \in Nat, NEW n \in Nat, 1..m = 1..n PROVE m = n
      OBVIOUS
    <3>2. (m = 0 \/ m \in 1..n) /\ (n = 0 \/ n \in 1..m)
      BY <3>1
    <3>3. (m = 0 => n = 0) /\ (n = 0 => m = 0)
      BY <3>2
    <3>4. QED
      BY <3>2, <3>3
  <2>4. QED
    BY <1>2, <2>1, <2>2, <2>3
<1>6. ASSUME NEW q \in Paths, Binds(q)
      PROVE  \/ mounts'[p] = mounts[p]
             \/ q = p /\ Len(mounts'[p]) = Len(mounts[p]) + 1
  BY <1>1, <1>6, BindMoves
<1>7. ASSUME NEW w \in Workers, PublishBind(w), Binds(PathOf(w))
      PROVE  \/ mounts'[p] = mounts[p]
             \/ /\ Len(mounts'[p]) = Len(mounts[p]) + 1
                /\ call[w].pc = "p_bind" /\ PathOf(w) = p /\ Return(w, "published")
  <2>1. PathOf(w) \in Paths /\ call[w].pc = "p_bind"
    BY <1>7, CallPath DEF PublishBind
  <2>2. Return(w, "published") \/ mounts' = mounts
    BY <1>7 DEF PublishBind
  <2>3. QED
    BY <1>6, <1>7, <2>1, <2>2
<1>8. ASSUME NEW it \in rec.items, RecBind(it), it.bind, Binds(it.path)
      PROVE  \/ mounts'[p] = mounts[p]
             \/ Len(mounts'[p]) = Len(mounts[p]) + 1 /\ it.path = p
  <2>1. it.path \in Paths
    BY DEF TypeInv, TypeOK, Item
  <2>2. QED
    BY <1>6, <1>8, <2>1
<1>9. ASSUME NEW u \in SubUses, SubPathBind(u)
      PROVE  \/ mounts'[p] = mounts[p]
             \/ /\ Len(mounts'[p]) = Len(mounts[p]) + 1
                /\ p = SubPath(u[1], u[2]) /\ mounts[p] = <<>>
  <2> DEFINE q == SubPath(u[1], u[2])
  <2>1. /\ mounts[q] = <<>> /\ Len(mounts'[q]) = 1
        /\ \A r \in Paths : r # q => mounts'[r] = mounts[r]
    BY <1>1, <1>9, SubPathMoves
  <2> HIDE DEF q
  <2>2. CASE p # q
    BY <2>1, <2>2
  <2>3. CASE p = q
    <3>1. Len(mounts[p]) = 0 /\ Len(mounts'[p]) = 0 + 1
      BY <1>2, <2>1, <2>3
    <3>2. QED
      BY <2>1, <2>3, <3>1 DEF q
  <2>4. QED
    BY <2>2, <2>3
<1>10. ASSUME NEW q \in Paths, Pops(q)
       PROVE  \/ mounts'[p] = mounts[p]
              \/ q = p /\ Len(mounts'[p]) = Len(mounts[p]) - 1 /\ NoNew(p)
  BY <1>1, <1>10, PopMoves DEF NoNew
<1>11. CASE \E w \in Workers : PublishBind(w) /\ Binds(PathOf(w))
  BY <1>3, <1>7, <1>11
<1>12. CASE \E it \in rec.items : RecBind(it) /\ it.bind /\ Binds(it.path)
  <2>1. PICK it \in rec.items : RecBind(it) /\ it.bind /\ Binds(it.path)
    BY <1>12, Zenon
  <2>2. \/ mounts'[p] = mounts[p]
        \/ Len(mounts'[p]) = Len(mounts[p]) + 1 /\ it.path = p
    BY <1>8, <2>1, Zenon
  <2>3. QED
    BY <1>3, <2>1, <2>2, Zenon
<1>13. CASE \E u \in SubUses : SubPathBind(u)
  BY <1>3, <1>9, <1>13
<1>14. CASE \E q \in Paths :
               /\ Pops(q)
               /\ \/ app[q.app] \in Leaving
                  \/ \E it \in rec.items : RecUmount(it) /\ it.path = q
  BY <1>3, <1>10, <1>14
<1>15. CASE \E v \in Vols : ClientDies(v) \/ DirectoryRemoved(v)
  BY <1>5, <1>15
<1>16. QED
  BY <1>4, <1>11, <1>12, <1>13, <1>14, <1>15, TableMoves

-----------------------------------------------------------------------------
(* Kubelet and its calls *)

LEMMA CallSide ==
    ASSUME TypeInv, NEW w \in Workers, Call(w),
           call[w].pc \in {"u_loop", "u_clean", "u_ref"}
    PROVE  call'[w] = IdleCall \/ call'[w].pc \in {"u_loop", "u_clean", "u_ref"}
<1>1. call[w] \in Calls /\ call \in [Workers -> Calls]
  BY DEF TypeInv
<1>2. \/ call' = [call EXCEPT ![w] = IdleCall]
      \/ \E label \in {"u_loop", "u_clean", "u_ref"} :
            call' = [call EXCEPT ![w].pc = label]
  BY DEF Call, PublishMkdir, JMount, WaitReady, CreateVol, PublishBind,
         UmountLoop, CleanTarget, JUmount, Continue, Goto, Return
<1>3. QED
  BY <1>1, <1>2 DEF Calls

LEMMA AskedStep ==
    ASSUME Patient, TypeInv, CallInv, AskedInv, [Next]_vars
    PROVE  AskedInv'
<1> DEFINE U == {"u_loop", "u_clean", "u_ref"}
           Good(x, c) ==
               c.pc # "idle" =>
                  /\ asked'[<<c.app, c.vol>>] = x
                  /\ \/ c.pc \in U
                     \/ /\ app'[c.app] \notin Leaving
                        /\ vstate'[<<c.app, c.vol>>] = "uncertain"
<1>1. SUFFICES ASSUME NEW x \in Workers PROVE Good(x, call'[x])
  BY DEF AskedInv, Leaving
<1> DEFINE u == <<call[x].app, call[x].vol>>
<1>2. /\ call \in [Workers -> Calls] /\ Nobody \notin Workers
      /\ asked \in [Uses -> Workers \cup {Nobody}] /\ app \in [Apps -> AppStates]
      /\ vstate \in [Uses -> {"none", "uncertain", "published", "unpublished"}]
  BY RecoveryAssumption DEF TypeInv, TypeOK, AppStates
<1>3. call[x].pc # "idle" =>
          /\ asked[u] = x
          /\ call[x].pc \in U \/ (app[call[x].app] \notin Leaving /\ vstate[u] = "uncertain")
  BY DEF AskedInv
<1>4. call[x].pc # "idle" => u \in Uses /\ call[x].app \in Apps
  BY CallPath
<1>5. IdleCall.pc = "idle"
  BY DEF IdleCall
<1>6. ASSUME NEW w \in Workers, Call(w) PROVE Good(x, call'[x])
  <2>1. app' = app
    BY <1>6, CallShape
  <2>2. /\ asked' = asked /\ vstate' = vstate
        \/ \E answer : Return(w, answer)
    BY <1>6, CallShape
  <2>3. CASE x = w
    <3>1. CASE call'[x] = IdleCall
      BY <1>5, <3>1
    <3>2. CASE call'[x] # IdleCall
      <4>1. /\ call'[x].app = call[x].app /\ call'[x].vol = call[x].vol
            /\ call[x].pc # "idle"
        BY <1>6, <2>3, <3>2, CallFields, CallShape
      <4>2. asked' = asked /\ vstate' = vstate
        BY <1>2, <2>2, <2>3, <3>2 DEF Return
      <4>3. call[x].pc \in U => call'[x].pc \in U
        BY <1>6, <2>3, <3>2, CallSide
      <4>4. QED
        BY <1>3, <2>1, <4>1, <4>2, <4>3
    <3>3. QED
      BY <3>1, <3>2
  <2>4. CASE x # w
    <3>1. call'[x] = call[x]
      BY <1>6, <2>4, CallFields
    <3>2. asked[u] = x /\ u \in Uses => asked'[u] = x /\ vstate'[u] = vstate[u]
      BY <1>2, <2>2, <2>4 DEF Return
    <3>3. QED
      BY <1>3, <1>4, <2>1, <3>1, <3>2
  <2>5. QED
    BY <2>3, <2>4
<1>7. ASSUME NEW w \in Workers, NEW y \in Uses, AskPublish(w, y) \/ AskUnpublish(w, y)
      PROVE  Good(x, call'[x])
  <2>1. PICK label :
          /\ Ask(w, y, label)
          /\ \/ /\ label = "p_mkdir" /\ app[y[1]] = "starting"
                /\ vstate' = [vstate EXCEPT ![y] = "uncertain"]
             \/ label = "u_loop" /\ vstate' = vstate
    <3>1. CASE AskPublish(w, y)
      BY <3>1 DEF AskPublish
    <3>2. CASE AskUnpublish(w, y)
      BY <3>2 DEF AskUnpublish
    <3>3. QED
      BY <1>7, <3>1, <3>2
  <2> DEFINE c == [pc |-> label, app |-> y[1], vol |-> y[2]]
  <2>2. /\ asked[y] = Nobody /\ asked' = [asked EXCEPT ![y] = w] /\ app' = app
        /\ call' = [call EXCEPT ![w] = c]
    BY <2>1 DEF Ask
  <2>3. c.pc = label /\ c.app = y[1] /\ c.vol = y[2] /\ y = <<y[1], y[2]>>
    BY PathFacts
  <2> HIDE DEF c
  <2>4. CASE x = w
    <3>1. call'[x] = c
      BY <1>2, <2>2, <2>4
    <3>2. asked'[y] = x
      BY <1>2, <2>2, <2>4
    <3>3. label = "p_mkdir" => vstate'[y] = "uncertain"
      BY <1>2, <2>1
    <3>4. QED
      BY <2>1, <2>2, <2>3, <3>1, <3>2, <3>3 DEF Leaving
  <2>5. CASE x # w
    <3>1. call'[x] = call[x]
      BY <1>2, <2>2, <2>5
    <3>2. call[x].pc # "idle" => u # y
      BY <1>2, <1>3, <2>2
    <3>3. call[x].pc # "idle" => asked'[u] = asked[u] /\ vstate'[u] = vstate[u]
      BY <1>2, <1>4, <2>1, <2>2, <3>2
    <3>4. QED
      BY <1>3, <2>2, <3>1, <3>3
  <2>6. QED
    BY <2>4, <2>5
<1>8. CASE PluginCrash
  BY <1>5, <1>8 DEF PluginCrash
<1>9. ASSUME NEW y \in Uses, CallTimeout(y) PROVE FALSE
  BY <1>9 DEF CallTimeout, OneShot, Patient
<1>10. ASSUME NEW a \in Apps, AppCreate(a) \/ AppRun(a) \/ AppGone(a) \/ AppDelete(a),
              vstate' = vstate
       PROVE  Good(x, call'[x])
  <2>1. call' = call /\ asked' = asked
    BY <1>10 DEF AppCreate, AppRun, AppGone, AppDelete, AppStep
  <2>2. call[x].pc # "idle" /\ app[call[x].app] \notin Leaving =>
            app'[call[x].app] \notin Leaving
    <3>1. CASE AppCreate(a) \/ AppRun(a) \/ AppGone(a)
      <4>1. \/ app' = [app EXCEPT ![a] = "starting"]
            \/ app' = [app EXCEPT ![a] = "running"]
            \/ app[a] = "deleting" /\ app' = [app EXCEPT ![a] = "gone"]
        BY <3>1 DEF AppCreate, AppRun, AppGone, AppStep
      <4>2. QED
        BY <1>2, <1>4, <4>1 DEF Leaving
    <3>2. CASE AppDelete(a)
      <4>1. /\ \A z \in Uses : z[1] = a => asked[z] = Nobody
            /\ app' = [app EXCEPT ![a] = "deleting"]
        BY <3>2 DEF AppDelete, AppStep, UsesOf
      <4>2. call[x].pc # "idle" => call[x].app # a
        <5>1. u[1] = call[x].app
          OBVIOUS
        <5>2. QED
          BY <1>2, <1>3, <1>4, <4>1, <5>1
      <4>3. QED
        BY <1>2, <1>4, <4>1, <4>2
    <3>3. QED
      BY <1>10, <3>1, <3>2
  <2>3. QED
    BY <1>3, <1>10, <2>1, <2>2
<1>11. CASE UNCHANGED <<app, asked, call>> /\ vstate' = vstate
  BY <1>3, <1>11
<1>12. QED
  BY <1>6, <1>7, <1>8, <1>9, <1>10, <1>11, OtherCalls

(* Kubelet does not forget what it published for a pod that stays. *)
LEMMA StaysPublished ==
    ASSUME TypeInv, CallInv, AskedInv, [Next]_vars, NEW u \in Uses,
           app[u[1]] \notin Leaving, vstate[u] = "published"
    PROVE  vstate'[u] = "published"
<1>1. vstate \in [Uses -> {"none", "uncertain", "published", "unpublished"}]
  BY DEF TypeInv, TypeOK
<1>2. ASSUME NEW w \in Workers, Call(w) PROVE vstate'[u] = "published"
  <2> DEFINE y == <<call[w].app, call[w].vol>>
  <2>1. vstate' = vstate \/ \E answer : vstate' = [vstate EXCEPT ![y] = answer]
    BY <1>2, CallShape DEF Return
  <2>2. call[w].pc # "idle" /\ y \in Uses
    BY <1>2, CallShape, CallPath
  <2>3. u # y
    BY <2>2 DEF AskedInv, CallInv
  <2> HIDE DEF y
  <2>4. QED
    BY <1>1, <2>1, <2>3
<1>3. ASSUME NEW w \in Workers, NEW y \in Uses, AskPublish(w, y) \/ AskUnpublish(w, y)
      PROVE  vstate'[u] = "published"
  BY <1>1, <1>3 DEF AskPublish, AskUnpublish
<1>4. QED
  BY <1>2, <1>3, OtherCalls

LEMMA FreshStep ==
    ASSUME TypeInv, EntryInv, CallInv, CountInv, OneItemInv, AskedInv, FreshInv,
           [Next]_vars
    PROVE  FreshInv'
<1>1. SUFFICES ASSUME NEW u \in Uses, app'[u[1]] \notin Leaving,
                      vstate'[u] # "published"
               PROVE  mounts'[T(u)] = <<>>
  BY DEF FreshInv, T, Target, Leaving
<1>2. u[1] \in Apps /\ T(u) \in Paths /\ T(u).kind = "target" /\ T(u).app = u[1]
  BY PathFacts
<1>3. app[u[1]] \notin Leaving
  BY <1>1, <1>2, AppStays
<1>4. mounts[T(u)] = <<>>
  BY <1>1, <1>3, StaysPublished DEF FreshInv
<1>5. /\ Len(mounts[T(u)]) \in Nat /\ Len(mounts'[T(u)]) \in Nat
      /\ mounts[T(u)] = <<>> <=> Len(mounts[T(u)]) = 0
      /\ mounts'[T(u)] = <<>> <=> Len(mounts'[T(u)]) = 0
  BY <1>2, Heights
<1>6. ASSUME NEW it \in rec.items, it.path = T(u) PROVE FALSE
  <2>1. it.pops < Len(mounts[T(u)]) /\ it.pops \in Nat
    BY <1>3, <1>6 DEF CountInv, TypeInv, TypeOK, Item
  <2>2. QED
    BY <1>4, <1>5, <2>1
<1>7. ASSUME NEW w \in Workers, call[w].pc = "p_bind", PathOf(w) = T(u),
             Return(w, "published")
      PROVE  FALSE
  <2>1. u = <<call[w].app, call[w].vol>>
    <3> DEFINE y == <<call[w].app, call[w].vol>>
    <3>1. y \in Uses /\ T(y) = T(u)
      BY <1>7, CallPath
    <3> HIDE DEF y
    <3>2. y = u
      BY <3>1, PathFacts
    <3>3. QED
      BY <3>2 DEF y
  <2>2. asked[u] = w
    BY <1>7, <2>1 DEF AskedInv
  <2>3. vstate' = [vstate EXCEPT ![u] = "published"]
    BY <1>7, <2>1, <2>2 DEF Return
  <2>4. QED
    BY <1>1, <2>3 DEF TypeInv, TypeOK
<1>8. ASSUME NEW y \in SubUses, T(u) = SubPath(y[1], y[2]) PROVE FALSE
  BY <1>2, <1>8, PathFacts
<1>9. ~ \E it \in rec.items : RecBind(it) /\ it.bind /\ it.path = T(u)
  BY <1>6, Zenon
<1>10. QED
  BY <1>2, <1>4, <1>5, <1>7, <1>8, <1>9, HeightMoves

-----------------------------------------------------------------------------
(* The items of the round *)

LEMMA OneItemStep ==
    ASSUME Patient, TypeInv, ListInv, OneItemInv, [Next]_vars
    PROVE  OneItemInv'
<1> DEFINE Good(i) ==
               /\ i.path.vol = rec'.vol /\ i.path.app \notin rec'.targets
               /\ \A o \in rec'.items : o.path = i.path => o = i
               /\ i.bind \/ app'[i.path.app] \in Leaving
<1>1. SUFFICES ASSUME NEW i \in rec'.items PROVE Good(i)
  BY Zenon DEF OneItemInv, Leaving
<1>2. \A it \in rec.items :
          /\ it.path \in Paths /\ it.path.app \in Apps
          /\ it.path.vol = rec.vol /\ it.path.app \notin rec.targets
          /\ \A o \in rec.items : o.path = it.path => o = it
  BY UsePath DEF OneItemInv, TypeInv, TypeOK, Item
<1>3. ASSUME NEW it \in rec.items PROVE it.bind \/ app'[it.path.app] \in Leaving
  <2>1. it.bind \/ app[it.path.app] \in Leaving
    BY Zenon DEF OneItemInv
  <2>2. app[it.path.app] \in Leaving => app'[it.path.app] \in Leaving
    BY <1>2, AppStays
  <2>3. QED
    BY <2>1, <2>2, Zenon
<1>4. CASE rec' = rec
  BY <1>1, <1>2, <1>3, <1>4
<1>5. CASE rec'.items = {}
  BY <1>1, <1>5
<1>6. ASSUME NEW a \in Apps, RecResolve(a) PROVE Good(i)
  <2> DEFINE ps == {Target(a, rec.vol)} \cup SubPathTargets(a, rec.vol)
  <2>1. /\ rec.pc = "target"
        /\ rec'.targets = rec.targets \ {a} /\ rec'.items = Items(a, ps)
        /\ rec'.vol = rec.vol /\ ps \in SUBSET Paths
    BY <1>6, ResolveFields
  <2>2. rec.mis \in [Paths -> Found]
    BY <2>1 DEF TypeInv, RoundInv
  <2>3. \A p \in ps : p.app = a /\ p.vol = rec.vol
    BY DEF Target, SubPathTargets, Patient
  <2> HIDE DEF ps
  <2>4. /\ \A it \in Items(a, ps) : it.path \in ps
        /\ \A it, other \in Items(a, ps) : it.path = other.path => it = other
    BY <2>1, <2>2, ItemsFacts
  <2>5. i.bind \/ rec.apps[a] = "deleting"
    <3>1. \A it \in Items(a, ps) :
             \/ /\ Stat(it.path) = "corrupt" /\ it.bind
                /\ it.pops = IF rec.mis[it.path].count > 0
                             THEN rec.mis[it.path].count - 1 ELSE 0
             \/ rec.apps[a] = "deleting" /\ ~it.bind
      BY <2>1, <2>2, ItemsFacts
    <3>2. i \in Items(a, ps)
      BY <1>1, <2>1
    <3>3. QED
      BY <3>1, <3>2, Zenon
  <2>6. rec.apps[a] = "deleting" => app'[a] \in Leaving
    BY <2>1, AppStays DEF ListInv
  <2>7. i.path.app = a /\ i.path.vol = rec.vol
    BY <1>1, <2>1, <2>3, <2>4
  <2>8. i.bind \/ app'[i.path.app] \in Leaving
    BY <2>5, <2>6, <2>7, Zenon
  <2>9. QED
    BY <1>1, <2>1, <2>4, <2>7, <2>8
<1>7. ASSUME NEW it \in rec.items, RecUmount(it) \/ RecBind(it) PROVE Good(i)
  <2> DEFINE less == [it EXCEPT !.pops = it.pops - 1]
  <2>1. /\ rec'.vol = rec.vol /\ rec'.targets = rec.targets /\ it \in Item
        /\ \/ rec'.items = rec.items \ {it}
           \/ rec'.items = (rec.items \ {it}) \cup {less}
    BY <1>7, ItemFields
  <2>2. less.path = it.path /\ less.bind = it.bind
    BY <2>1 DEF Item
  <2> HIDE DEF less
  <2>3. \A o \in rec'.items : \E b \in rec.items :
            b.path = o.path /\ (o = IF b = it THEN less ELSE b)
    <3>1. SUFFICES ASSUME NEW o \in rec'.items
                   PROVE  \E b \in rec.items :
                             b.path = o.path /\ (o = IF b = it THEN less ELSE b)
      OBVIOUS
    <3>2. CASE o \in rec.items \ {it}
      BY <3>2
    <3>3. CASE o = less
      BY <2>2, <3>3
    <3>4. QED
      BY <2>1, <3>1, <3>2, <3>3
  <2>4. PICK b \in rec.items :
            b.path = i.path /\ (i = IF b = it THEN less ELSE b)
    BY <1>1, <2>3
  <2>5. ASSUME NEW o \in rec'.items, o.path = i.path PROVE o = i
    <3>1. PICK d \in rec.items :
            d.path = o.path /\ (o = IF d = it THEN less ELSE d)
      BY <2>3
    <3>2. d = b
      BY <1>2, <2>4, <2>5, <3>1
    <3>3. QED
      BY <2>4, <3>1, <3>2
  <2>6. i.bind = b.bind
    <3>1. CASE b = it
      BY <2>2, <2>4, <3>1, Zenon
    <3>2. CASE b # it
      BY <2>4, <3>2, Zenon
    <3>3. QED
      BY <3>1, <3>2, Zenon
  <2>7. i.bind \/ app'[i.path.app] \in Leaving
    BY <1>3, <2>4, <2>6, Zenon
  <2>8. QED
    BY <1>2, <2>1, <2>4, <2>5, <2>7
<1>8. IdleRec.items = {}
  BY DEF IdleRec
<1>9. QED
  BY <1>4, <1>5, <1>6, <1>7, <1>8, RoundShape, RoundFields

(* Where an item of the next state comes from. *)
LEMMA ItemOrigin ==
    ASSUME TypeInv, [Next]_vars, NEW i \in rec'.items
    PROVE  \/ i \in rec.items /\ ~RecUmount(i) /\ ~RecBind(i)
           \/ \E it \in rec.items : /\ RecUmount(it) /\ i.path = it.path
                                    /\ i.bind = it.bind /\ i.pops = it.pops - 1
           \/ \E a \in Apps : RecResolve(a)
<1>1. IdleRec.items = {}
  BY DEF IdleRec
<1>2. ASSUME NEW it \in rec.items, RecUmount(it) \/ RecBind(it)
      PROVE  \/ i \in rec.items \ {it}
             \/ /\ RecUmount(it) /\ i.path = it.path /\ i.bind = it.bind
                /\ i.pops = it.pops - 1
  <2> DEFINE less == [it EXCEPT !.pops = it.pops - 1]
  <2>1. /\ it \in Item
        /\ \/ rec'.items = rec.items \ {it}
           \/ RecUmount(it) /\ rec'.items = (rec.items \ {it}) \cup {less}
    BY <1>2, ItemFields
  <2>2. less.path = it.path /\ less.bind = it.bind /\ less.pops = it.pops - 1
    BY <2>1 DEF Item
  <2> HIDE DEF less
  <2>3. i \in rec.items \ {it} \/ (i = less /\ RecUmount(it))
    BY <2>1
  <2>4. QED
    BY <2>2, <2>3
<1>3. CASE i \in rec.items
  <2>1. ASSUME RecUmount(i) \/ RecBind(i) PROVE FALSE
    <3>1. i.pops = i.pops - 1
      BY <1>2, <1>3, <2>1
    <3>2. i.pops \in Nat
      BY <1>3 DEF TypeInv, TypeOK, Item
    <3>3. QED
      BY <3>1, <3>2
  <2>2. QED
    BY <1>3, <2>1
<1>4. CASE i \notin rec.items
  BY <1>1, <1>2, <1>4, RoundShape, RoundFields
<1>5. QED
  BY <1>3, <1>4

(* What resolveTargetItem makes an item of. *)
LEMMA ResolvedItem ==
    ASSUME Patient, TypeInv, NEW a \in Apps, RecResolve(a), NEW i \in rec'.items
    PROVE  /\ mounts' = mounts /\ i.path \in Paths
           /\ i.path.app = a /\ Unresolved(UseOf(i.path))
           /\ rec.pc = "target" /\ rec.mis[i.path].count \in Nat
           /\ \/ /\ Stat(i.path) = "corrupt" /\ i.bind
                 /\ i.pops = IF rec.mis[i.path].count > 0
                             THEN rec.mis[i.path].count - 1 ELSE 0
              \/ rec.apps[a] = "deleting" /\ ~i.bind
<1> DEFINE ps == {Target(a, rec.vol)} \cup SubPathTargets(a, rec.vol)
<1>1. /\ rec.pc = "target" /\ a \in rec.targets /\ mounts' = mounts
      /\ rec'.items = Items(a, ps) /\ ps \in SUBSET Paths
  BY ResolveFields DEF tableVars
<1>2. rec.mis \in [Paths -> Found]
  BY <1>1 DEF TypeInv, RoundInv
<1>3. \A p \in ps : p.app = a /\ p.vol = rec.vol
  BY DEF Target, SubPathTargets, Patient
<1> HIDE DEF ps
<1>4. /\ \A it \in Items(a, ps) : it.path \in ps
      /\ \A it \in Items(a, ps) :
            \/ /\ Stat(it.path) = "corrupt" /\ it.bind
               /\ it.pops = IF rec.mis[it.path].count > 0
                            THEN rec.mis[it.path].count - 1 ELSE 0
            \/ rec.apps[a] = "deleting" /\ ~it.bind
  BY <1>1, <1>2, ItemsFacts
<1>5. /\ \/ /\ Stat(i.path) = "corrupt" /\ i.bind
            /\ i.pops = IF rec.mis[i.path].count > 0
                        THEN rec.mis[i.path].count - 1 ELSE 0
         \/ rec.apps[a] = "deleting" /\ ~i.bind
  BY <1>1, <1>4
<1>6. i.path \in Paths /\ i.path.app = a /\ i.path.vol = rec.vol
  BY <1>1, <1>3, <1>4
<1>7. rec.mis[i.path].count \in Nat
  BY <1>2, <1>6 DEF Found
<1>8. Unresolved(UseOf(i.path))
  BY <1>1, <1>6 DEF Unresolved, UseOf
<1>9. QED
  BY <1>1, <1>5, <1>6, <1>7, <1>8

(* What the round has yet to resolve of a path it knows already, unless it *)
(* has just read the mount table.                                          *)
LEMMA PathResolved ==
    ASSUME TypeInv, EntryInv, OneItemInv, [Next]_vars, NEW p \in Paths,
           rec'.pc \notin {"idle", "parse"},
           \/ p.vol \in rec'.todo
           \/ p.vol = rec'.vol /\ (rec'.pc = "target" => p.app \in rec'.targets)
    PROVE  \/ mounts' = mounts /\ rec'.mis[p].count = Len(mounts[p])
           \/ /\ Unresolved(UseOf(p)) /\ rec'.mis[p] = rec.mis[p]
              /\ rec.mis[p].count \in Nat
              /\ ~ \E it \in rec.items :
                      it.path = p /\ (RecUmount(it) \/ RecBind(it))
<1> DEFINE u == UseOf(p)
<1>1. u \in Uses /\ u[1] = p.app /\ u[2] = p.vol
  BY UsePath DEF UseOf
<1> HIDE DEF u
<1>2. CASE RecList
  BY <1>2 DEF RecList, RecContinue, TypeInv, RoundInv, Rounds
<1>3. CASE RecParse
  BY <1>3, ParseFields DEF tableVars
<1>4. CASE ~RecList /\ ~RecParse
  <2>1. Unresolved(u) /\ rec'.mis = rec.mis
    <3>1. CASE u[2] \in rec'.todo
      BY <1>4, <3>1, UnresolvedStep, <1>1
    <3>2. CASE u[2] = rec'.vol /\ (rec'.pc = "target" => u[1] \in rec'.targets)
      BY <1>4, <3>2, UnresolvedStep, <1>1
    <3>3. QED
      BY <1>1, <3>1, <3>2
  <2>2. rec.mis[p].count \in Nat
    BY <2>1 DEF Unresolved, TypeInv, RoundInv, Found
  <2>3. ASSUME NEW it \in rec.items, it.path = p, RecUmount(it) \/ RecBind(it)
        PROVE  FALSE
    <3>1. p.vol = rec.vol /\ p.app \notin rec.targets /\ rec.pc = "target"
      BY <2>3 DEF OneItemInv, RecUmount, RecBind, Current
    <3>2. rec.vol \notin rec.todo
      BY DEF TypeInv, RoundInv
    <3>3. QED
      BY <1>1, <2>1, <3>1, <3>2 DEF Unresolved
  <2>4. QED
    BY <2>1, <2>2, <2>3 DEF u
<1>5. QED
  BY <1>2, <1>3, <1>4

(* A stack grows by what the round binds, or from nothing. *)
LEMMA Grown ==
    ASSUME TypeInv, EntryInv, CallInv, OneItemInv, AskedInv, FreshInv,
           [Next]_vars, NEW p \in Paths
    PROVE  \/ Len(mounts'[p]) <= Len(mounts[p]) /\ NoNew(p)
           \/ Len(mounts'[p]) = 1 /\ Len(mounts[p]) = 0
           \/ /\ Len(mounts'[p]) = Len(mounts[p]) + 1
              /\ \E it \in rec.items : RecBind(it) /\ it.bind /\ it.path = p
<1>1. /\ Len(mounts[p]) \in Nat /\ Len(mounts'[p]) \in Nat
      /\ mounts[p] = <<>> <=> Len(mounts[p]) = 0
  BY Heights
<1>2. ASSUME NEW w \in Workers, call[w].pc = "p_bind", PathOf(w) = p
      PROVE  Len(mounts[p]) = 0
  <2> DEFINE u == <<call[w].app, call[w].vol>>
  <2>1. /\ u \in Uses /\ p = T(u)
    BY <1>2, CallPath
  <2>2. app[u[1]] \notin Leaving /\ vstate[u] = "uncertain"
    BY <1>2 DEF AskedInv
  <2> HIDE DEF u
  <2>3. mounts[p] = <<>>
    BY <2>1, <2>2 DEF FreshInv
  <2>4. QED
    BY <1>1, <2>3
<1>3. CASE /\ Len(mounts'[p]) = Len(mounts[p]) + 1
           /\ \/ \E it \in rec.items : RecBind(it) /\ it.bind /\ it.path = p
              \/ \E w \in Workers :
                    /\ call[w].pc = "p_bind" /\ PathOf(w) = p
                    /\ Return(w, "published")
              \/ \E u \in SubUses : /\ SubPathBind(u) /\ p = SubPath(u[1], u[2])
                                    /\ mounts[p] = <<>>
  <2>1. CASE Len(mounts[p]) = 0
    BY <1>3, <2>1
  <2>2. CASE Len(mounts[p]) # 0
    <3>1. \E it \in rec.items : RecBind(it) /\ it.bind /\ it.path = p
      BY <1>1, <1>2, <1>3, <2>2, Zenon
    <3>2. QED
      BY <1>3, <3>1
  <2>3. QED
    BY <2>1, <2>2
<1>4. CASE Len(mounts'[p]) = Len(mounts[p]) /\ NoNew(p)
  BY <1>1, <1>4
<1>5. CASE Len(mounts'[p]) = Len(mounts[p]) - 1 /\ NoNew(p)
  BY <1>1, <1>5
<1>6. QED
  BY <1>3, <1>4, <1>5, HeightMoves

(* A path never has more than two mounts: what is bound again was taken    *)
(* down to one, and what is published has none.                            *)
LEMMA HeightStep ==
    ASSUME Patient, TypeInv, EntryInv, CallInv, OneItemInv, AskedInv, FreshInv,
           HeightInv, [Next]_vars
    PROVE  HeightInv'
<1>1. SUFFICES ASSUME NEW p \in Paths
               PROVE  /\ Len(mounts'[p]) <= 2
                      /\ /\ rec'.pc \notin {"idle", "parse"}
                         /\ \/ p.vol \in rec'.todo
                            \/ /\ p.vol = rec'.vol
                               /\ rec'.pc = "target" => p.app \in rec'.targets
                         => \/ Len(mounts'[p]) <= 1
                            \/ Len(mounts'[p]) <= rec'.mis[p].count
                      /\ \A i \in rec'.items : i.path = p /\ i.bind =>
                            Len(mounts'[p]) <= i.pops + 1
  BY DEF HeightInv, Unresolved, UseOf, Paths, Target, SubPath
<1>0. \A m, n, k \in Nat :
          /\ (m <= n \/ m = 1) /\ n <= 2 => m <= 2
          /\ (m <= n \/ m = 1) /\ (n <= 1 \/ n <= k) => m <= 1 \/ m <= k
          /\ (m <= n \/ m = 1) /\ n <= k + 1 => m <= k + 1
  OBVIOUS
<1>2. Len(mounts[p]) \in Nat /\ Len(mounts'[p]) \in Nat
  BY Heights
<1>3. /\ Len(mounts[p]) <= 2
      /\ Unresolved(UseOf(p)) =>
            Len(mounts[p]) <= 1 \/ Len(mounts[p]) <= rec.mis[p].count
      /\ \A it \in rec.items :
            it.path = p /\ it.bind => Len(mounts[p]) <= it.pops + 1
  BY DEF HeightInv
<1>4. \/ Len(mounts'[p]) <= Len(mounts[p])
      \/ Len(mounts'[p]) = 1
      \/ /\ Len(mounts'[p]) <= 2
         /\ \E it \in rec.items : RecBind(it) /\ it.path = p
  <2>1. ASSUME NEW it \in rec.items, RecBind(it), it.bind, it.path = p
        PROVE  Len(mounts[p]) <= 1
    BY <1>2, <1>3, <2>1 DEF RecBind
  <2>2. CASE /\ Len(mounts'[p]) = Len(mounts[p]) + 1
             /\ \E it \in rec.items : RecBind(it) /\ it.bind /\ it.path = p
    <3>1. Len(mounts[p]) <= 1
      BY <2>1, <2>2
    <3>2. Len(mounts'[p]) <= 2
      BY <1>2, <2>2, <3>1
    <3>3. QED
      BY <2>2, <3>2
  <2>3. QED
    BY <2>2, Grown
<1>5. Len(mounts'[p]) <= 2
  <2>1. CASE Len(mounts'[p]) <= Len(mounts[p]) \/ Len(mounts'[p]) = 1
    BY <1>2, <1>3, <1>0, <2>1
  <2>2. QED
    BY <1>4, <2>1
<1>6. ASSUME rec'.pc \notin {"idle", "parse"},
             \/ p.vol \in rec'.todo
             \/ p.vol = rec'.vol /\ (rec'.pc = "target" => p.app \in rec'.targets)
      PROVE  Len(mounts'[p]) <= 1 \/ Len(mounts'[p]) <= rec'.mis[p].count
  <2>1. CASE mounts' = mounts /\ rec'.mis[p].count = Len(mounts[p])
    BY <1>2, <2>1
  <2>2. CASE /\ Unresolved(UseOf(p)) /\ rec'.mis[p] = rec.mis[p]
             /\ rec.mis[p].count \in Nat
             /\ ~ \E it \in rec.items :
                     it.path = p /\ (RecUmount(it) \/ RecBind(it))
    <3>1. Len(mounts'[p]) <= Len(mounts[p]) \/ Len(mounts'[p]) = 1
      BY <1>4, <2>2
    <3>2. /\ Len(mounts[p]) <= 1 \/ Len(mounts[p]) <= rec.mis[p].count
          /\ rec'.mis[p] = rec.mis[p] /\ rec.mis[p].count \in Nat
      BY <1>3, <2>2
    <3> DEFINE m == Len(mounts'[p])
               n == Len(mounts[p])
               k == rec.mis[p].count
    <3>3. /\ m \in Nat /\ n \in Nat /\ k \in Nat
          /\ (m <= n \/ m = 1) /\ (n <= 1 \/ n <= k)
      BY <1>2, <3>1, <3>2
    <3> HIDE DEF m, n, k
    <3>4. m <= 1 \/ m <= k
      BY <1>0, <3>3
    <3>5. QED
      BY <3>2, <3>4 DEF m, k
  <2>3. QED
    BY <1>6, <2>1, <2>2, PathResolved
<1>7. ASSUME NEW i \in rec'.items, i.path = p, i.bind
      PROVE  Len(mounts'[p]) <= i.pops + 1
  <2>1. CASE i \in rec.items /\ ~RecUmount(i) /\ ~RecBind(i)
    <3>1. i.pops \in Nat /\ Len(mounts[p]) <= i.pops + 1
      BY <1>3, <1>7, <2>1 DEF TypeInv, TypeOK, Item
    <3>2. ~ \E it \in rec.items : RecBind(it) /\ it.path = p
      BY <1>7, <2>1 DEF OneItemInv
    <3>3. Len(mounts'[p]) <= Len(mounts[p]) \/ Len(mounts'[p]) = 1
      BY <1>4, <3>2
    <3>4. QED
      BY <1>2, <1>0, <3>1, <3>3
  <2>2. ASSUME NEW it \in rec.items, RecUmount(it), i.path = it.path,
               i.bind = it.bind, i.pops = it.pops - 1
        PROVE  Len(mounts'[p]) <= i.pops + 1
    <3>1. it.pops \in Nat /\ Len(mounts[p]) <= it.pops + 1
      BY <1>3, <1>7, <2>2 DEF TypeInv, TypeOK, Item
    <3>2. TableInv /\ Umount(p)
      BY <1>7, <2>2 DEF TableInv, TypeInv, TypeOK, SrcStates, RecUmount
    <3>3. /\ mounts[p] = <<>> => mounts'[p] = <<>>
          /\ mounts[p] # <<>> => Len(mounts'[p]) = Len(mounts[p]) - 1
      BY <3>2, UmountKeeps
    <3>4. mounts'[p] = <<>> <=> Len(mounts'[p]) = 0
      BY Heights
    <3>5. it.pops > 0
      BY <2>2 DEF RecUmount
    <3>6. QED
      BY <1>2, <2>2, <3>1, <3>3, <3>4, <3>5
  <2>3. ASSUME NEW a \in Apps, RecResolve(a) PROVE Len(mounts'[p]) <= i.pops + 1
    <3>1. /\ mounts' = mounts /\ Unresolved(UseOf(i.path))
          /\ rec.mis[i.path].count \in Nat
          /\ i.pops = IF rec.mis[i.path].count > 0
                      THEN rec.mis[i.path].count - 1 ELSE 0
      BY <1>7, <2>3, ResolvedItem
    <3>2. Len(mounts[p]) <= 1 \/ Len(mounts[p]) <= rec.mis[p].count
      BY <1>3, <1>7, <3>1
    <3>3. QED
      BY <1>2, <1>7, <3>1, <3>2
  <2>4. QED
    BY <2>1, <2>2, <2>3, ItemOrigin
<1>8. QED
  BY <1>5, <1>6, <1>7

(* CountStep, for every path. *)
LEMMA LeftStep ==
    ASSUME Patient, TypeInv, EntryInv, CallInv, ListInv, OneItemInv, LeftInv,
           [Next]_vars
    PROVE  LeftInv'
<1>1. SUFFICES ASSUME NEW p \in Paths, app'[p.app] \notin Leaving
               PROVE  /\ /\ rec'.pc \notin {"idle", "parse"}
                         /\ \/ p.vol \in rec'.todo
                            \/ /\ p.vol = rec'.vol
                               /\ rec'.pc = "target" => p.app \in rec'.targets
                         => rec'.mis[p].count <= Len(mounts'[p])
                      /\ \A i \in rec'.items : i.path = p =>
                            i.pops < Len(mounts'[p])
  BY DEF LeftInv, Unresolved, UseOf, Paths, Target, SubPath, Leaving
<1>2. Len(mounts[p]) \in Nat /\ Len(mounts'[p]) \in Nat
  BY Heights
<1>3. app[p.app] \notin Leaving
  BY <1>1, UsePath, AppStays
<1>4. /\ Unresolved(UseOf(p)) => rec.mis[p].count <= Len(mounts[p])
      /\ \A it \in rec.items : it.path = p => it.pops < Len(mounts[p])
  BY <1>3 DEF LeftInv
<1>5. \/ Len(mounts[p]) <= Len(mounts'[p])
      \/ /\ Len(mounts'[p]) = Len(mounts[p]) - 1
         /\ \E it \in rec.items : RecUmount(it) /\ it.path = p
  BY <1>2, <1>3, HeightMoves
<1>6. ASSUME rec'.pc \notin {"idle", "parse"},
             \/ p.vol \in rec'.todo
             \/ p.vol = rec'.vol /\ (rec'.pc = "target" => p.app \in rec'.targets)
      PROVE  rec'.mis[p].count <= Len(mounts'[p])
  <2>1. CASE mounts' = mounts /\ rec'.mis[p].count = Len(mounts[p])
    BY <1>2, <2>1
  <2>2. CASE /\ Unresolved(UseOf(p)) /\ rec'.mis[p] = rec.mis[p]
             /\ rec.mis[p].count \in Nat
             /\ ~ \E it \in rec.items :
                     it.path = p /\ (RecUmount(it) \/ RecBind(it))
    BY <1>2, <1>4, <1>5, <2>2
  <2>3. QED
    BY <1>6, <2>1, <2>2, PathResolved
<1>7. ASSUME NEW i \in rec'.items, i.path = p
      PROVE  i.pops < Len(mounts'[p])
  <2>1. CASE i \in rec.items /\ ~RecUmount(i) /\ ~RecBind(i)
    <3>1. i.pops \in Nat /\ i.pops < Len(mounts[p])
      BY <1>4, <1>7, <2>1 DEF TypeInv, TypeOK, Item
    <3>2. ~ \E it \in rec.items : RecUmount(it) /\ it.path = p
      BY <1>7, <2>1 DEF OneItemInv
    <3>3. QED
      BY <1>2, <1>5, <3>1, <3>2
  <2>2. ASSUME NEW it \in rec.items, i.path = it.path, i.pops = it.pops - 1
        PROVE  i.pops < Len(mounts'[p])
    <3>1. it.pops \in Nat /\ it.pops < Len(mounts[p])
      BY <1>4, <1>7, <2>2 DEF TypeInv, TypeOK, Item
    <3>2. QED
      BY <1>2, <1>5, <2>2, <3>1
  <2>3. ASSUME NEW a \in Apps, RecResolve(a) PROVE i.pops < Len(mounts'[p])
    <3>1. /\ mounts' = mounts /\ Unresolved(UseOf(i.path)) /\ i.path.app = a
          /\ rec.mis[i.path].count \in Nat /\ rec.pc = "target"
          /\ \/ /\ Stat(i.path) = "corrupt"
                /\ i.pops = IF rec.mis[i.path].count > 0
                            THEN rec.mis[i.path].count - 1 ELSE 0
             \/ rec.apps[a] = "deleting"
      BY <2>3, ResolvedItem
    <3>2. rec.apps[a] # "deleting"
      BY <1>3, <1>7, <3>1 DEF ListInv
    <3>3. mounts[p] # <<>>
      BY <1>7, <3>1, <3>2, StatFacts
    <3>4. Len(mounts[p]) # 0
      BY <3>3, Heights
    <3>5. QED
      BY <1>2, <1>4, <1>7, <3>1, <3>2, <3>4
  <2>4. QED
    BY <2>1, <2>2, <2>3, ItemOrigin
<1>8. QED
  BY <1>6, <1>7

(* What is to be bound again stays broken until it is. *)
LEMMA BrokenStep ==
    ASSUME Patient, TypeInv, EntryInv, CallInv, ListInv, OneItemInv, AskedInv,
           FreshInv, LeftInv, DeadInv, BrokenInv, [Next]_vars
    PROVE  BrokenInv'
<1>1. SUFFICES ASSUME NEW i \in rec'.items, i.bind, app'[i.path.app] \notin Leaving,
                      NEW k \in DOMAIN mounts'[i.path]
               PROVE  mounts'[i.path][k].st # "live"
  BY DEF BrokenInv, Leaving
<1> DEFINE p == i.path
<1>2. p \in Paths
  <2>1. TypeInv'
    BY TableStep, TypeStep
  <2>2. rec'.items \subseteq Item
    BY <2>1 DEF TypeInv, TypeOK
  <2>3. QED
    BY <1>1, <2>2 DEF Item
<1>3. app[p.app] \notin Leaving
  BY <1>1, <1>2, UsePath, AppStays
<1> HIDE DEF p
<1>4. /\ Len(mounts[p]) \in Nat /\ Len(mounts'[p]) \in Nat
      /\ mounts[p] = <<>> <=> Len(mounts[p]) = 0
      /\ DOMAIN mounts[p] = 1..Len(mounts[p])
  BY <1>2, Heights
<1>5. ASSUME NEW it \in rec.items, it.path = p, it.bind, ~RecBind(it)
      PROVE  mounts'[p][k].st # "live"
  <2>1. it.pops \in Nat /\ it.pops < Len(mounts[p])
    BY <1>2, <1>3, <1>5 DEF LeftInv, TypeInv, TypeOK, Item
  <2>2. ~ \E b \in rec.items : RecBind(b) /\ b.path = p
    BY <1>5 DEF OneItemInv
  <2>3. NoNew(p)
    BY <1>2, <1>4, <2>1, <2>2, Grown
  <2>4. \A j \in DOMAIN mounts[p] : mounts[p][j].st # "live"
    BY <1>3, <1>5 DEF BrokenInv
  <2>5. QED
    BY <1>1, <2>3, <2>4 DEF NoNew, p
<1>6. CASE i \in rec.items /\ ~RecUmount(i) /\ ~RecBind(i)
  BY <1>1, <1>5, <1>6 DEF p
<1>7. ASSUME NEW it \in rec.items, RecUmount(it), i.path = it.path,
             i.bind = it.bind
      PROVE  mounts'[i.path][k].st # "live"
  <2>1. ~RecBind(it)
    <3>1. it.pops \in Nat
      BY DEF TypeInv, TypeOK, Item
    <3>2. QED
      BY <1>7, <3>1 DEF RecUmount, RecBind
  <2>2. QED
    BY <1>1, <1>5, <1>7, <2>1 DEF p
<1>8. ASSUME NEW a \in Apps, RecResolve(a) PROVE mounts'[i.path][k].st # "live"
  <2>1. mounts' = mounts /\ Stat(p) = "corrupt"
    BY <1>1, <1>8, ResolvedItem DEF p
  <2>2. mounts[p] # <<>> /\ Top(p) = "dead"
    BY <2>1 DEF Stat
  <2>3. /\ Len(mounts[p]) \in DOMAIN mounts[p]
        /\ mounts[p][Len(mounts[p])].st = "dead"
    BY <1>4, <2>2 DEF Top
  <2>4. k \in DOMAIN mounts[p] /\ (k = Len(mounts[p]) \/ k < Len(mounts[p]))
    BY <1>1, <1>4, <2>1 DEF p
  <2>5. mounts[p][k].st # "live"
    BY <1>2, <2>3, <2>4 DEF DeadInv
  <2>6. QED
    BY <2>1, <2>5 DEF p
<1>9. QED
  BY <1>6, <1>7, <1>8, ItemOrigin

-----------------------------------------------------------------------------
LEMMA StackInit == Init => StackInv
<1>1. SUFFICES ASSUME Init PROVE StackInv
  OBVIOUS
<1>2. /\ mounts = [p \in Paths |-> <<>>] /\ src = [v \in Vols |-> "none"]
      /\ call = [w \in Workers |-> IdleCall] /\ rec = IdleRec
  BY <1>1 DEF Init, MountTableInit
<1>3. IdleRec.pc = "idle" /\ IdleRec.items = {} /\ IdleCall.pc = "idle"
  BY DEF IdleRec, IdleCall
<1>4. \A p \in Paths : mounts[p] = <<>>
  BY <1>2
<1>5. AskedInv
  BY <1>2, <1>3 DEF AskedInv
<1>6. FreshInv
  BY <1>4, PathFacts DEF FreshInv
<1>7. OneItemInv /\ BrokenInv
  BY <1>2, <1>3 DEF OneItemInv, BrokenInv
<1>8. LeftInv
  BY <1>2, <1>3 DEF LeftInv, Unresolved
<1>9. DeadInv
  <2>1. DOMAIN <<>> = {}
    OBVIOUS
  <2>2. QED
    BY <1>4, <2>1 DEF DeadInv
<1>10. HeightInv
  <2>1. Len(<<>>) <= 2
    OBVIOUS
  <2>2. QED
    BY <1>2, <1>3, <1>4, <2>1 DEF HeightInv, Unresolved
<1>11. QED
  BY <1>5, <1>6, <1>7, <1>8, <1>9, <1>10 DEF StackInv

LEMMA StackNext ==
    ASSUME Patient, IInv, StackInv, [Next]_vars
    PROVE  StackInv'
<1>1. /\ AskedInv' /\ FreshInv' /\ OneItemInv' /\ HeightInv' /\ LeftInv'
      /\ DeadInv' /\ BrokenInv'
  BY AskedStep, FreshStep, OneItemStep, HeightStep, LeftStep, DeadStep,
     BrokenStep DEF IInv, StackInv
<1>2. QED
  BY <1>1 DEF StackInv

(* The stacks of mounts, in every state a behaviour reaches. *)
THEOREM StackInvariance == ASSUME Patient PROVE Spec => []StackInv
<1>1. Init => StackInv
  BY StackInit
<1>2. IInv /\ StackInv /\ [Next]_vars => StackInv'
  BY StackNext
<1>3. QED
  BY <1>1, <1>2, Invariance, PTL DEF Spec

(* However often clients crash and the plugin restarts, recoverTarget and  *)
(* NodePublishVolume leave a path with two mounts at most, as long as      *)
(* kubelet waits for its calls and no volume's name is a prefix of         *)
(* another's.                                                              *)
THEOREM MountsBoundedHolds == ASSUME Patient PROVE Spec => []MountsBounded
<1>1. StackInv => MountsBounded
  BY DEF StackInv, HeightInv, MountsBounded
<1>2. QED
  BY <1>1, StackInvariance, PTL

LEMMA KeepsWorking ==
    ASSUME IInv, StackInv, [Next]_vars, NEW p \in Paths, rec' # rec,
           app[p.app] = "running", mounts[p] # <<>>, Top(p) = "live"
    PROVE  mounts'[p] = mounts[p]
<1>1. /\ TypeInv /\ EntryInv /\ CallInv /\ OneItemInv /\ BrokenInv /\ TableInv
  BY DEF IInv, StackInv, TypeInv, TypeOK, TableInv, SrcStates
<1>2. app[p.app] \notin Leaving
  BY DEF Leaving
<1>3. Len(mounts[p]) \in DOMAIN mounts[p]
  <2>1. /\ Len(mounts[p]) \in Nat /\ Len(mounts[p]) # 0
        /\ DOMAIN mounts[p] = 1..Len(mounts[p])
    BY <1>1, Heights
  <2>2. QED
    BY <2>1
<1>4. ASSUME NEW it \in rec.items, it.path = p PROVE FALSE
  <2>1. it.bind
    BY <1>1, <1>2, <1>4 DEF OneItemInv
  <2>2. mounts[p][Len(mounts[p])].st # "live"
    BY <1>1, <1>2, <1>3, <1>4, <2>1 DEF BrokenInv
  <2>3. QED
    BY <2>2 DEF Top
<1>5. \A it \in rec.items : it.path \in Paths
  BY <1>1 DEF TypeInv, TypeOK, Item
<1>6. CASE Reconcile
  <2>1. CASE Unmoved
    BY <2>1 DEF Unmoved
  <2>2. ASSUME NEW it \in rec.items, Binds(it.path) PROVE mounts'[p] = mounts[p]
    BY <1>1, <1>4, <1>5, <2>2, BindMoves
  <2>3. ASSUME NEW it \in rec.items, Pops(it.path) PROVE mounts'[p] = mounts[p]
    BY <1>1, <1>4, <1>5, <2>3, PopMoves
  <2>4. QED
    BY <1>1, <1>6, <2>1, <2>2, <2>3, ReconcileMoves
<1>7. CASE PluginCrash
  BY <1>7 DEF PluginCrash, tableVars
<1>8. CASE ~Reconcile /\ ~PluginCrash
  <2>1. ~ \E w \in Workers : Call(w)
    BY <1>1, CallShape
  <2>2. QED
    BY <1>8, <2>1
    DEF Next, Fault, vars, Kubelet, UsesOf, AppCreate, AppRun, AppGone,
        AppDelete, AppStep, AskPublish, AskUnpublish, Ask, SubPathBind,
        SubPathClean, Others, Container, ClientUp, PreStop, ClientStops,
        PodGone, Probe, LateClean, ClientCrash, UserDelete, RemoveDir,
        CallTimeout
<1>9. QED
  BY <1>6, <1>7, <1>8

(* No step of a round, and no restart of the plugin, takes a mount that    *)
(* works from a running pod: although recoverTarget unmounts by counts of  *)
(* an older mount table, what it takes off was dead.                       *)
THEOREM RecoveryKeepsWorkingHolds ==
    ASSUME Patient PROVE Spec => RecoveryKeepsWorking
<1> DEFINE Keeps == \A p \in Paths :
               /\ rec' # rec
               /\ app[p.app] = "running"
               /\ mounts[p] # <<>> /\ Top(p) = "live"
               => mounts'[p] # <<>> /\ Top(p)' = "live"
<1>1. IInv /\ StackInv /\ [Next]_vars => [Keeps]_vars
  <2>1. SUFFICES ASSUME IInv, StackInv, [Next]_vars PROVE Keeps
    OBVIOUS
  <2>2. SUFFICES ASSUME NEW p \in Paths, rec' # rec, app[p.app] = "running",
                        mounts[p] # <<>>, Top(p) = "live"
                 PROVE  mounts'[p] # <<>> /\ Top(p)' = "live"
    OBVIOUS
  <2>3. mounts'[p] = mounts[p]
    BY <2>1, <2>2, KeepsWorking
  <2>4. QED
    BY <2>2, <2>3 DEF Top
<1>2. QED
  BY <1>1, Invariance, StackInvariance, PTL DEF Spec, RecoveryKeepsWorking
=============================================================================
