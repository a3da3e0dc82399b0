--------------------------- MODULE RecoveryProofs ---------------------------
(***************************************************************************)
(* Proofs about Recovery, for every set of volumes, pods, uses and         *)
(* threads, every relation between the names of volumes, and every set and *)
(* number of faults.                                                       *)
(***************************************************************************)
EXTENDS Recovery, SequenceTheorems, TLAPS

AppStates == {"absent", "starting", "running", "deleting", "gone"}

Calls == [pc : CallLabels \cup {"idle"}, app : Apps \cup {Nobody},
          vol : Vols \cup {Nobody}]

RecLabels == {"idle", "parse", "next", "deleted", "clean", "lock", "wait",
              "ready", "target"}

Found == [count : Nat, inconsistent : BOOLEAN]

Rounds == [pc : RecLabels, apps : [Apps -> AppStates] \cup {<<>>},
           pods : [Vols -> Pod] \cup {<<>>}, mis : [Paths -> Found] \cup {<<>>},
           todo : SUBSET Vols, vol : Vols \cup {Nobody},
           targets : SUBSET Apps, items : SUBSET Item]

(* The round has what its labels say, and handles one mount pod at a time. *)
RoundInv ==
    /\ rec \in Rounds
    /\ rec.pc # "idle" =>
          rec.apps \in [Apps -> AppStates] /\ rec.pods \in [Vols -> Pod]
    /\ rec.pc \notin {"idle", "parse"} => rec.mis \in [Paths -> Found]
    /\ IF rec.pc \in {"idle", "parse", "next"} THEN rec.vol = Nobody
                                               ELSE rec.vol \in Vols
    /\ rec.vol \notin rec.todo
    /\ rec.pc # "target" => rec.items = {}

Users(v) == {a \in Apps : <<a, v>> \in Uses}

(* A mount pod is referenced by pods that use its volume. *)
RefInv ==
    /\ \A v \in Vols : pod[v].refs \subseteq Users(v)
    /\ rec.pc # "idle" => \A v \in Vols : rec.pods[v].refs \subseteq Users(v)
    /\ IF rec.vol \in Vols THEN rec.targets \subseteq Users(rec.vol)
                           ELSE rec.targets = {}

TypeInv == TypeOK /\ call \in [Workers -> Calls] /\ RoundInv /\ RefInv

-----------------------------------------------------------------------------
T(u) == Target(u[1], u[2])
Leaving == {"deleting", "gone"}

(* No target shows a directory that was removed: those are subpaths. *)
EntryInv ==
    \A u \in Uses : \A i \in DOMAIN mounts[T(u)] :
        mounts[T(u)][i].st # "removed"

(* A call that has yet to make the target's directory is one kubelet waits *)
(* for, and its pod is not deleted; one that unpublishes serves a pod that *)
(* is.                                                                     *)
CallInv ==
    \A w \in Workers : LET c == call[w] IN
        /\ c.pc = "p_mkdir" =>
              asked[<<c.app, c.vol>>] = w /\ app[c.app] \notin Leaving
        /\ c.pc \in {"u_loop", "u_clean", "u_ref"} => app[c.app] \in Leaving

(* From the clean up of a target on there is neither mount nor directory. *)
Unbound(u) == mounts[T(u)] = <<>> /\ T(u) \notin dirs

UnboundInv ==
    /\ \A w \in Workers :
          call[w].pc = "u_ref" => Unbound(<<call[w].app, call[w].vol>>)
    /\ \A u \in Uses : vstate[u] = "unpublished" =>
          Unbound(u) /\ app[u[1]] \in Leaving

(* A pod the round takes for deleted is. *)
ListInv ==
    rec.pc # "idle" =>
        \A a \in Apps : rec.apps[a] = "deleting" => app[a] \in Leaving

(* The round has yet to resolve the target of use u. *)
Unresolved(u) ==
    /\ rec.pc \notin {"idle", "parse"}
    /\ \/ u[2] \in rec.todo
       \/ u[2] = rec.vol /\ (rec.pc = "target" => u[1] \in rec.targets)

(* The items of targets are those of the pod at hand, one for a path. *)
ItemInv ==
    \A u \in Uses : \A it \in rec.items : it.path = T(u) =>
        /\ u[2] = rec.vol /\ u[1] \notin rec.targets
        /\ \A other \in rec.items : other.path = it.path => other = it

(* What the round takes for mounted on the target of a pod that stays is   *)
(* mounted, and one mount more than it is going to take off.               *)
CountInv ==
    \A u \in Uses : app[u[1]] \notin Leaving =>
        /\ Unresolved(u) => rec.mis[T(u)].count <= Len(mounts[T(u)])
        /\ \A it \in rec.items : it.path = T(u) => it.pops < Len(mounts[T(u)])

(* PublishedStaysMounted, for every pod that is not being deleted. *)
PublishedInv ==
    \A u \in Uses : vstate[u] = "published" /\ app[u[1]] \notin Leaving =>
        mounts[T(u)] # <<>>

IInv ==
    /\ TypeInv /\ EntryInv /\ CallInv /\ UnboundInv /\ ListInv /\ ItemInv
    /\ CountInv /\ PublishedInv

-----------------------------------------------------------------------------
(* The mount table *)

SrcStates == {"none", "dir", "live", "dead"}

TableInv ==
    /\ mounts \in [Paths -> Seq(Entry)]
    /\ dirs \subseteq Paths
    /\ src \in [Vols -> SrcStates]
    /\ subdirs \subseteq Vols
    /\ EntryInv

(* The path of a use is a path of its own, and never that of a subpath. *)
LEMMA PathFacts ==
    /\ \A u \in Uses : /\ T(u) \in Paths /\ u[1] \in Apps /\ u[2] \in Vols
                       /\ u = <<u[1], u[2]>> /\ T(u).kind = "target"
                       /\ T(u).app = u[1] /\ T(u).vol = u[2]
    /\ \A u, x \in Uses : T(u) = T(x) => u = x
    /\ \A u \in SubUses : /\ u \in Uses /\ SubPath(u[1], u[2]) \in Paths
                          /\ SubPath(u[1], u[2]).kind = "subpath"
    /\ \A p \in Paths : p.kind # "subpath" => \E u \in Uses : p = T(u)
<1>1. \A u \in Uses : u = <<u[1], u[2]>> /\ u[1] \in Apps /\ u[2] \in Vols
  BY UseAssumption
<1>2. \A u \in Uses : /\ T(u) \in Paths /\ T(u).kind = "target"
                      /\ T(u).app = u[1] /\ T(u).vol = u[2]
  BY DEF T, Target, Paths
<1>3. \A u, x \in Uses : T(u) = T(x) => u = x
  <2>1. SUFFICES ASSUME NEW u \in Uses, NEW x \in Uses, T(u) = T(x)
                 PROVE  u = x
    OBVIOUS
  <2>2. u[1] = x[1] /\ u[2] = x[2]
    BY <1>2, <2>1
  <2>3. QED
    BY <1>1, <2>2
<1>4. \A u \in SubUses : /\ u \in Uses /\ SubPath(u[1], u[2]) \in Paths
                         /\ SubPath(u[1], u[2]).kind = "subpath"
  BY UseAssumption DEF SubPath, Paths
<1>5. \A p \in Paths : p.kind # "subpath" => \E u \in Uses : p = T(u)
  BY DEF Paths, SubPath, T
<1>6. QED
  BY <1>1, <1>2, <1>3, <1>4, <1>5

(* A stack without its topmost mount. *)
LEMMA PopFacts ==
    ASSUME NEW S, NEW s \in Seq(S), s # <<>>
    PROVE  /\ Len(s) \in Nat \ {0}
           /\ Pop(s) \in Seq(S)
           /\ Len(Pop(s)) = Len(s) - 1
           /\ DOMAIN Pop(s) \subseteq DOMAIN s
           /\ \A i \in DOMAIN Pop(s) : Pop(s)[i] = s[i]
<1>1. Len(s) \in Nat \ {0} /\ DOMAIN s = 1..Len(s)
  BY EmptySeq, LenProperties
<1>2. \A i \in 1..Len(s) : s[i] \in S
  BY <1>1, ElementOfSeq
<1>3. \A k \in Nat \ {0} :
          /\ k - 1 \in Int
          /\ (IF 1 <= k - 1 THEN (k - 1) - 1 + 1 ELSE 0) = k - 1
          /\ (k - 1) - 1 + 1 = k - 1
          /\ \A i \in 1..(k - 1) : 1 + i - 1 = i /\ i \in 1..k
  OBVIOUS
<1> DEFINE n == Len(s) - 1
<1>4. /\ n \in Int
      /\ (IF 1 <= n THEN n - 1 + 1 ELSE 0) = n /\ n - 1 + 1 = n
      /\ \A i \in 1..n : 1 + i - 1 = i /\ i \in 1..Len(s)
  BY <1>1, <1>3
<1>5. \A i \in 1..n : s[i] \in S
  BY <1>2, <1>4
<1> HIDE DEF n
<1>6. /\ SubSeq(s, 1, n) \in Seq(S)
      /\ Len(SubSeq(s, 1, n)) = IF 1 <= n THEN n - 1 + 1 ELSE 0
      /\ \A i \in 1..(n - 1 + 1) : SubSeq(s, 1, n)[i] = s[1 + i - 1]
  BY <1>4, <1>5, SubSeqProperties
<1>7. /\ Pop(s) \in Seq(S) /\ Len(Pop(s)) = Len(s) - 1
      /\ \A i \in 1..n : Pop(s)[i] = s[i]
  BY <1>4, <1>6, Zenon DEF Pop, n
<1>8. DOMAIN Pop(s) = 1..n
  BY <1>7, LenProperties DEF n
<1>9. QED
  BY <1>1, <1>4, <1>7, <1>8

(* A stack whose mounts changed in place. *)
LEMMA InPlace ==
    ASSUME NEW S, NEW s \in Seq(S), NEW r, DOMAIN r = DOMAIN s,
           r = [i \in DOMAIN r |-> r[i]], \A i \in DOMAIN r : r[i] \in S
    PROVE  r \in Seq(S) /\ Len(r) = Len(s)
<1>1. Len(s) \in Nat /\ DOMAIN s = 1..Len(s)
  BY LenProperties
<1>2. r \in [1..Len(s) -> S]
  BY <1>1
<1>3. r \in Seq(S)
  BY <1>1, <1>2, SeqDef
<1>4. Len(r) \in Nat /\ 1..Len(r) = 1..Len(s)
  BY <1>1, <1>3, LenProperties
<1>5. \A m, n \in Nat : 1..m = 1..n => m = n
  <2>1. SUFFICES ASSUME NEW m \in Nat, NEW n \in Nat, 1..m = 1..n PROVE m = n
    OBVIOUS
  <2>2. m = 0 \/ m \in 1..n
    BY <2>1
  <2>3. n = 0 \/ n \in 1..m
    BY <2>1
  <2>4. (m = 0 => n = 0) /\ (n = 0 => m = 0)
    BY <2>2, <2>3
  <2>5. QED
    BY <2>2, <2>3, <2>4
<1>6. QED
  BY <1>1, <1>3, <1>4, <1>5

(* What stat tells of the mounts of a path. *)
LEMMA StatFacts ==
    ASSUME NEW p
    PROVE  /\ Stat(p) = "corrupt" => mounts[p] # <<>>
           /\ Stat(p) = "notExist" /\ mounts[p] # <<>> => Top(p) = "removed"
           /\ mounts[p] = <<>> /\ p \notin dirs => Stat(p) = "notExist"
<1>1. mounts[p] = <<>> => Stat(p) \in {"ok", "notExist"}
  BY DEF Stat
<1>2. mounts[p] # <<>> /\ Top(p) # "removed" => Stat(p) \in {"corrupt", "ok"}
  <2>1. CASE mounts[p] # <<>> /\ Top(p) = "dead"
    BY <2>1, Zenon DEF Stat
  <2>2. CASE mounts[p] # <<>> /\ Top(p) # "dead" /\ Top(p) # "removed"
    BY <2>2, Zenon DEF Stat
  <2>3. QED
    BY <2>1, <2>2
<1>3. QED
  BY <1>1, <1>2 DEF Stat

LEMMA ShownFacts ==
    ASSUME NEW v \in Vols, src \in [Vols -> SrcStates], NEW st \in Shown(v)
    PROVE  st \in {"live", "local", "dead"}
<1>1. src[v] \in SrcStates
  OBVIOUS
<1>2. QED
  BY <1>1 DEF SrcStates, Shown

(* A path gets another stack, the others keep theirs. *)
LEMMA Replaced ==
    ASSUME TableInv, NEW p \in Paths, NEW s \in Seq(Entry),
           p.kind # "subpath" => \A i \in DOMAIN s : s[i].st # "removed",
           mounts' = [mounts EXCEPT ![p] = s]
    PROVE  /\ mounts' \in [Paths -> Seq(Entry)]
           /\ EntryInv'
           /\ mounts'[p] = s
           /\ \A q \in Paths : q # p => mounts'[q] = mounts[q]
<1>1. /\ mounts' \in [Paths -> Seq(Entry)] /\ mounts'[p] = s
      /\ \A q \in Paths : q # p => mounts'[q] = mounts[q]
  BY DEF TableInv
<1>2. \A u \in Uses : \A i \in DOMAIN mounts'[T(u)] :
          mounts'[T(u)][i].st # "removed"
  <2>1. SUFFICES ASSUME NEW u \in Uses, NEW i \in DOMAIN mounts'[T(u)]
                 PROVE  mounts'[T(u)][i].st # "removed"
    OBVIOUS
  <2>2. T(u) \in Paths /\ T(u).kind = "target"
    BY PathFacts
  <2>3. CASE T(u) = p
    BY <1>1, <2>1, <2>2, <2>3
  <2>4. CASE T(u) # p
    <3>1. mounts'[T(u)] = mounts[T(u)]
      BY <1>1, <2>2, <2>4
    <3>2. QED
      BY <2>1, <3>1 DEF TableInv, EntryInv
  <2>5. QED
    BY <2>3, <2>4
<1>3. EntryInv'
  BY <1>2 DEF EntryInv, T, Target
<1>4. QED
  BY <1>1, <1>3

(* A stack without its topmost mount, on a path. *)
LEMMA Popped ==
    ASSUME TableInv, NEW p \in Paths, mounts[p] # <<>>
    PROVE  /\ Pop(mounts[p]) \in Seq(Entry)
           /\ Len(mounts[p]) \in Nat \ {0}
           /\ Len(Pop(mounts[p])) = Len(mounts[p]) - 1
           /\ p.kind # "subpath" =>
                 \A i \in DOMAIN Pop(mounts[p]) :
                    Pop(mounts[p])[i].st # "removed"
<1>1. mounts[p] \in Seq(Entry)
  BY DEF TableInv
<1>2. /\ Len(mounts[p]) \in Nat \ {0}
      /\ Pop(mounts[p]) \in Seq(Entry)
      /\ Len(Pop(mounts[p])) = Len(mounts[p]) - 1
      /\ DOMAIN Pop(mounts[p]) \subseteq DOMAIN mounts[p]
      /\ \A i \in DOMAIN Pop(mounts[p]) : Pop(mounts[p])[i] = mounts[p][i]
  BY <1>1, PopFacts
<1>3. ASSUME p.kind # "subpath", NEW i \in DOMAIN Pop(mounts[p])
      PROVE  Pop(mounts[p])[i].st # "removed"
  <2>1. PICK u \in Uses : p = T(u)
    BY <1>3, PathFacts
  <2>2. i \in DOMAIN mounts[T(u)] /\ Pop(mounts[p])[i] = mounts[T(u)][i]
    BY <1>2, <1>3, <2>1
  <2>3. QED
    BY <2>2 DEF TableInv, EntryInv
<1>4. QED
  BY <1>2, <1>3

LEMMA UmountKeeps ==
    ASSUME TableInv, NEW p \in Paths, Umount(p)
    PROVE  /\ TableInv'
           /\ dirs' = dirs
           /\ mounts[p] = <<>> => mounts'[p] = <<>>
           /\ mounts[p] # <<>> => Len(mounts'[p]) = Len(mounts[p]) - 1
           /\ \A q \in Paths : q # p => mounts'[q] = mounts[q]
<1>1. dirs' = dirs /\ src' = src /\ subdirs' = subdirs
  BY DEF Umount
<1>2. CASE mounts[p] = <<>>
  <2>1. mounts' = mounts
    BY <1>2 DEF Umount, TableInv
  <2>2. QED
    BY <1>1, <1>2, <2>1 DEF TableInv, EntryInv
<1>3. CASE mounts[p] # <<>>
  <2>1. mounts' = [mounts EXCEPT ![p] = Pop(mounts[p])]
    BY <1>3 DEF Umount
  <2>2. /\ mounts' \in [Paths -> Seq(Entry)] /\ EntryInv'
        /\ mounts'[p] = Pop(mounts[p])
        /\ \A q \in Paths : q # p => mounts'[q] = mounts[q]
    BY <1>3, <2>1, Popped, Replaced
  <2>3. Len(mounts'[p]) = Len(mounts[p]) - 1
    BY <1>3, <2>2, Popped
  <2>4. QED
    BY <1>1, <1>3, <2>2, <2>3 DEF TableInv
<1>4. QED
  BY <1>2, <1>3

LEMMA BindKeeps ==
    ASSUME TableInv, NEW p \in Paths, NEW v \in Vols, NEW st \in Shown(v),
           BindMount(p, v, st)
    PROVE  /\ TableInv'
           /\ dirs' = dirs /\ p \in dirs
           /\ Len(mounts[p]) \in Nat
           /\ Len(mounts'[p]) = Len(mounts[p]) + 1
           /\ \A q \in Paths : q # p => mounts'[q] = mounts[q]
<1> DEFINE e == [vol |-> v, st |-> st]
           s == Append(mounts[p], e)
<1>1. /\ dirs' = dirs /\ src' = src /\ subdirs' = subdirs /\ p \in dirs
      /\ mounts' = [mounts EXCEPT ![p] = s]
  BY DEF BindMount
<1>2. st \in {"live", "local", "dead"}
  BY ShownFacts DEF TableInv
<1>3. e \in Entry /\ e.st # "removed"
  BY <1>2 DEF Entry
<1>4. mounts[p] \in Seq(Entry)
  BY DEF TableInv
<1> HIDE DEF e
<1>5. /\ s \in Seq(Entry) /\ Len(s) = Len(mounts[p]) + 1
      /\ \A i \in 1..Len(mounts[p]) : s[i] = mounts[p][i]
      /\ s[Len(mounts[p]) + 1] = e
      /\ DOMAIN s = 1..Len(s) /\ DOMAIN mounts[p] = 1..Len(mounts[p])
      /\ Len(mounts[p]) \in Nat
  BY <1>3, <1>4, AppendProperties, LenProperties
<1>6. ASSUME p.kind # "subpath", NEW i \in DOMAIN s
      PROVE  s[i].st # "removed"
  <2>1. PICK u \in Uses : p = T(u)
    BY <1>6, PathFacts
  <2>2. CASE i \in DOMAIN mounts[p]
    <3>1. s[i] = mounts[T(u)][i] /\ i \in DOMAIN mounts[T(u)]
      BY <1>5, <2>1, <2>2
    <3>2. QED
      BY <3>1 DEF TableInv, EntryInv
  <2>3. CASE i \notin DOMAIN mounts[p]
    <3>1. i = Len(mounts[p]) + 1
      BY <1>5, <1>6, <2>3
    <3>2. QED
      BY <1>3, <1>5, <3>1
  <2>4. QED
    BY <2>2, <2>3
<1> HIDE DEF s
<1>7. /\ mounts' \in [Paths -> Seq(Entry)] /\ EntryInv' /\ mounts'[p] = s
      /\ \A q \in Paths : q # p => mounts'[q] = mounts[q]
  BY <1>1, <1>5, <1>6, Replaced
<1>8. QED
  BY <1>1, <1>5, <1>7 DEF TableInv

(* A clean up that does not fail leaves a target without a mount. *)
LEMMA CleanupKeeps ==
    ASSUME TableInv, NEW p \in Paths, p.kind # "subpath", CleanupMountPoint(p)
    PROVE  /\ TableInv'
           /\ dirs' \subseteq dirs
           /\ mounts[p] = <<>> => mounts'[p] = <<>>
           /\ ~CleanupFails(p) => mounts'[p] = <<>> /\ p \notin dirs'
           /\ \A q \in Paths : q # p => mounts'[q] = mounts[q]
<1>1. /\ dirs' \subseteq dirs /\ src' = src /\ subdirs' = subdirs
      /\ AfterCleanup(p) = <<>> => p \notin dirs'
      /\ mounts' = [mounts EXCEPT ![p] = AfterCleanup(p)]
  BY DEF CleanupMountPoint
<1>2. PICK u \in Uses : p = T(u)
  BY PathFacts
<1>3. /\ AfterCleanup(p) \in Seq(Entry)
      /\ \A i \in DOMAIN AfterCleanup(p) : AfterCleanup(p)[i].st # "removed"
  <2>1. CASE mounts[p] = <<>> \/ Top(p) \in {"removed", "local"}
    <3>1. AfterCleanup(p) = mounts[p]
      BY <2>1 DEF AfterCleanup
    <3>2. QED
      BY <1>2, <3>1 DEF TableInv, EntryInv
  <2>2. CASE ~(mounts[p] = <<>> \/ Top(p) \in {"removed", "local"})
    <3>1. AfterCleanup(p) = Pop(mounts[p])
      BY <2>2 DEF AfterCleanup
    <3>2. QED
      BY <2>2, <3>1, Popped
  <2>3. QED
    BY <2>1, <2>2
<1>4. /\ mounts' \in [Paths -> Seq(Entry)] /\ EntryInv'
      /\ mounts'[p] = AfterCleanup(p)
      /\ \A q \in Paths : q # p => mounts'[q] = mounts[q]
  BY <1>1, <1>3, Replaced
<1>5. mounts[p] # <<>> => Stat(p) # "notExist"
  <2>1. SUFFICES ASSUME mounts[p] # <<>> PROVE Top(p) # "removed"
    BY StatFacts
  <2>2. Len(mounts[p]) \in DOMAIN mounts[p]
    <3>1. mounts[p] \in Seq(Entry)
      BY DEF TableInv
    <3>2. Len(mounts[p]) \in Nat \ {0} /\ DOMAIN mounts[p] = 1..Len(mounts[p])
      BY <2>1, <3>1, EmptySeq, LenProperties
    <3>3. QED
      BY <3>2
  <2>3. QED
    BY <1>2, <2>2 DEF Top, TableInv, EntryInv
<1>6. mounts[p] = <<>> => AfterCleanup(p) = <<>>
  BY DEF AfterCleanup
<1>7. ~CleanupFails(p) => AfterCleanup(p) = <<>>
  BY <1>5, <1>6 DEF CleanupFails
<1>8. TableInv'
  BY <1>1, <1>4 DEF TableInv
<1>9. QED
  BY <1>1, <1>4, <1>6, <1>7, <1>8

(* Every mount stays where it is, whatever it shows from now on. *)
LEMMA StackInPlace ==
    ASSUME TableInv, mounts' = [p \in Paths |-> mounts'[p]],
           \A p \in Paths :
              /\ DOMAIN mounts'[p] = DOMAIN mounts[p]
              /\ mounts'[p] = [i \in DOMAIN mounts'[p] |-> mounts'[p][i]]
              /\ \A i \in DOMAIN mounts[p] :
                    /\ mounts'[p][i] \in Entry
                    /\ p.kind # "subpath" /\ mounts[p][i].st # "removed" =>
                          mounts'[p][i].st # "removed"
    PROVE  /\ mounts' \in [Paths -> Seq(Entry)]
           /\ EntryInv'
           /\ \A p \in Paths : Len(mounts'[p]) = Len(mounts[p])
<1>1. ASSUME NEW p \in Paths
      PROVE  mounts'[p] \in Seq(Entry) /\ Len(mounts'[p]) = Len(mounts[p])
  <2>1. mounts[p] \in Seq(Entry)
    BY DEF TableInv
  <2> DEFINE r == mounts'[p]
  <2>2. /\ DOMAIN r = DOMAIN mounts[p] /\ r = [i \in DOMAIN r |-> r[i]]
        /\ \A i \in DOMAIN r : r[i] \in Entry
    OBVIOUS
  <2> HIDE DEF r
  <2>3. r \in Seq(Entry) /\ Len(r) = Len(mounts[p])
    BY <2>1, <2>2, InPlace
  <2>4. QED
    BY <2>3 DEF r
<1>2. \A u \in Uses : \A i \in DOMAIN mounts'[T(u)] :
          mounts'[T(u)][i].st # "removed"
  <2>1. SUFFICES ASSUME NEW u \in Uses, NEW i \in DOMAIN mounts'[T(u)]
                 PROVE  mounts'[T(u)][i].st # "removed"
    OBVIOUS
  <2>2. T(u) \in Paths /\ T(u).kind # "subpath"
    BY PathFacts
  <2>3. i \in DOMAIN mounts[T(u)]
    BY <2>1, <2>2
  <2>4. mounts[T(u)][i].st # "removed"
    BY <2>3 DEF TableInv, EntryInv
  <2>5. QED
    BY <2>2, <2>3, <2>4
<1>3. EntryInv'
  BY <1>2 DEF EntryInv, T, Target
<1>4. mounts' \in [Paths -> Seq(Entry)]
  BY <1>1
<1>5. QED
  BY <1>1, <1>3, <1>4

LEMMA DiesKeeps ==
    ASSUME TableInv, NEW v \in Vols, ClientDies(v)
    PROVE  /\ TableInv'
           /\ dirs' = dirs
           /\ \A p \in Paths : Len(mounts'[p]) = Len(mounts[p])
<1>1. /\ dirs' = dirs /\ subdirs' = subdirs /\ src' \in [Vols -> SrcStates]
  BY DEF ClientDies, TableInv, SrcStates
<1>2. mounts' = [p \in Paths |-> mounts'[p]]
  BY DEF ClientDies
<1>3. ASSUME NEW p \in Paths
      PROVE  /\ DOMAIN mounts'[p] = DOMAIN mounts[p]
             /\ mounts'[p] = [i \in DOMAIN mounts'[p] |-> mounts'[p][i]]
             /\ \A i \in DOMAIN mounts[p] :
                   /\ mounts'[p][i] \in Entry
                   /\ p.kind # "subpath" /\ mounts[p][i].st # "removed" =>
                         mounts'[p][i].st # "removed"
  <2>1. mounts'[p] = [i \in DOMAIN mounts[p] |->
          LET e == mounts[p][i]
          IN  IF e.vol = v /\ e.st \in {"live", "removed"}
              THEN [e EXCEPT !.st = "dead"] ELSE e]
    BY DEF ClientDies
  <2>2. /\ DOMAIN mounts'[p] = DOMAIN mounts[p]
        /\ mounts'[p] = [i \in DOMAIN mounts'[p] |-> mounts'[p][i]]
    BY <2>1
  <2>3. \A i \in DOMAIN mounts[p] : mounts[p][i] \in Entry
    <3>1. mounts[p] \in Seq(Entry)
      BY DEF TableInv
    <3>2. QED
      BY <3>1, LenProperties
  <2>4. \A i \in DOMAIN mounts[p] :
          mounts'[p][i] \in {mounts[p][i], [mounts[p][i] EXCEPT !.st = "dead"]}
    BY <2>1
  <2>5. \A e \in Entry : /\ [e EXCEPT !.st = "dead"] \in Entry
                         /\ [e EXCEPT !.st = "dead"].st = "dead"
    BY DEF Entry
  <2>6. ASSUME NEW i \in DOMAIN mounts[p]
        PROVE  /\ mounts'[p][i] \in Entry
               /\ p.kind # "subpath" /\ mounts[p][i].st # "removed" =>
                     mounts'[p][i].st # "removed"
    <3>1. CASE mounts'[p][i] = mounts[p][i]
      BY <2>3, <3>1
    <3>2. CASE mounts'[p][i] = [mounts[p][i] EXCEPT !.st = "dead"]
      <4>1. mounts[p][i] \in Entry
        BY <2>3
      <4>2. mounts'[p][i] \in Entry /\ mounts'[p][i].st = "dead"
        BY <2>5, <3>2, <4>1, Zenon
      <4>3. QED
        BY <4>2
    <3>3. QED
      BY <2>4, <3>1, <3>2
  <2>7. QED
    BY <2>2, <2>6
<1>4. /\ mounts' \in [Paths -> Seq(Entry)] /\ EntryInv'
      /\ \A p \in Paths : Len(mounts'[p]) = Len(mounts[p])
  BY <1>2, <1>3, StackInPlace
<1>5. QED
  BY <1>1, <1>4 DEF TableInv

LEMMA RemovedKeeps ==
    ASSUME TableInv, NEW v \in Vols, DirectoryRemoved(v)
    PROVE  /\ TableInv'
           /\ dirs' = dirs
           /\ \A p \in Paths : Len(mounts'[p]) = Len(mounts[p])
<1>1. /\ dirs' = dirs /\ src' = src /\ subdirs' \subseteq Vols
  BY DEF DirectoryRemoved, TableInv
<1>2. mounts' = [p \in Paths |-> mounts'[p]]
  BY DEF DirectoryRemoved
<1>3. ASSUME NEW p \in Paths
      PROVE  /\ DOMAIN mounts'[p] = DOMAIN mounts[p]
             /\ mounts'[p] = [i \in DOMAIN mounts'[p] |-> mounts'[p][i]]
             /\ \A i \in DOMAIN mounts[p] :
                   /\ mounts'[p][i] \in Entry
                   /\ p.kind # "subpath" /\ mounts[p][i].st # "removed" =>
                         mounts'[p][i].st # "removed"
  <2>1. mounts'[p] = [i \in DOMAIN mounts[p] |->
          LET e == mounts[p][i]
          IN  IF p.kind = "subpath" /\ e.vol = v /\ e.st = "live"
              THEN [e EXCEPT !.st = "removed"] ELSE e]
    BY DEF DirectoryRemoved
  <2>2. /\ DOMAIN mounts'[p] = DOMAIN mounts[p]
        /\ mounts'[p] = [i \in DOMAIN mounts'[p] |-> mounts'[p][i]]
    BY <2>1
  <2>3. \A i \in DOMAIN mounts[p] : mounts[p][i] \in Entry
    <3>1. mounts[p] \in Seq(Entry)
      BY DEF TableInv
    <3>2. QED
      BY <3>1, LenProperties
  <2>4. \A i \in DOMAIN mounts[p] :
          /\ mounts'[p][i] \in {mounts[p][i],
                                [mounts[p][i] EXCEPT !.st = "removed"]}
          /\ p.kind # "subpath" => mounts'[p][i] = mounts[p][i]
    BY <2>1
  <2>5. \A e \in Entry : [e EXCEPT !.st = "removed"] \in Entry
    BY DEF Entry
  <2>6. QED
    BY <2>2, <2>3, <2>4, <2>5
<1>4. /\ mounts' \in [Paths -> Seq(Entry)] /\ EntryInv'
      /\ \A p \in Paths : Len(mounts'[p]) = Len(mounts[p])
  BY <1>2, <1>3, StackInPlace
<1>5. QED
  BY <1>1, <1>4 DEF TableInv

LEMMA SubPathBindKeeps ==
    ASSUME TableInv, NEW u \in SubUses, SubPathBind(u)
    PROVE  /\ TableInv'
           /\ \A x \in Uses : /\ mounts'[T(x)] = mounts[T(x)]
                              /\ T(x) \in dirs' => T(x) \in dirs
<1> DEFINE p == SubPath(u[1], u[2])
           t == Target(u[1], u[2])
           e == [vol |-> u[2], st |-> Top(t)]
<1>1. /\ u \in Uses /\ p \in Paths /\ p.kind = "subpath" /\ t \in Paths
      /\ u[2] \in Vols
  BY PathFacts DEF T
<1>2. /\ mounts[t] # <<>> /\ dirs' = dirs \cup {p} /\ src' = src
      /\ mounts' = [mounts EXCEPT ![p] = <<e>>]
      /\ subdirs' \subseteq subdirs \cup {u[2]}
  BY DEF SubPathBind
<1>3. e \in Entry
  <2>1. mounts[t] \in Seq(Entry)
    BY <1>1 DEF TableInv
  <2>2. /\ Len(mounts[t]) \in Nat \ {0}
        /\ mounts[t] \in [1..Len(mounts[t]) -> Entry]
    BY <1>2, <2>1, EmptySeq, LenProperties
  <2>3. mounts[t][Len(mounts[t])] \in Entry
    BY <2>2
  <2>4. QED
    BY <1>1, <2>3 DEF Entry, Top
<1> HIDE DEF e, p
<1>4. <<e>> \in Seq(Entry)
  BY <1>3
<1>5. /\ mounts' \in [Paths -> Seq(Entry)] /\ EntryInv'
      /\ \A q \in Paths : q # p => mounts'[q] = mounts[q]
  BY <1>1, <1>2, <1>4, Replaced
<1>6. TableInv'
  BY <1>1, <1>2, <1>5 DEF TableInv
<1>7. ASSUME NEW x \in Uses
      PROVE  T(x) \in Paths /\ T(x) # p
  BY <1>1, PathFacts
<1>8. QED
  BY <1>2, <1>5, <1>6, <1>7

-----------------------------------------------------------------------------
(* What a step may do to the targets.  A pod that is not being deleted     *)
(* loses a mount to the reconciler at most; on a target that was cleaned   *)
(* for a pod that is nothing appears.                                      *)
Grows(u) == app[u[1]] \notin Leaving => Len(mounts[T(u)]) <= Len(mounts'[T(u)])

Stays(u) ==
    app[u[1]] \in Leaving /\ Unbound(u) => mounts'[T(u)] = <<>> /\ T(u) \notin dirs'

TableKept == TableInv' /\ \A u \in Uses : Grows(u) /\ Stays(u)

LEMMA LenFacts ==
    ASSUME TableInv, NEW u \in Uses
    PROVE  /\ Len(mounts[T(u)]) \in Nat
           /\ mounts[T(u)] = <<>> <=> Len(mounts[T(u)]) = 0
<1>1. mounts[T(u)] \in Seq(Entry)
  BY PathFacts DEF TableInv
<1>2. QED
  BY <1>1, LenProperties, EmptySeq

LEMMA SameMounts ==
    ASSUME TableInv, mounts' = mounts, dirs' \subseteq dirs,
           src' \in [Vols -> SrcStates], subdirs' \subseteq Vols
    PROVE  TableKept
<1>1. TableInv'
  BY DEF TableInv, EntryInv
<1>2. ASSUME NEW u \in Uses PROVE Grows(u) /\ Stays(u)
  <2>1. Len(mounts[T(u)]) \in Nat
    BY LenFacts
  <2>2. QED
    BY <2>1 DEF Grows, Stays, Unbound
<1>3. QED
  BY <1>1, <1>2 DEF TableKept

LEMMA SameLengths ==
    ASSUME TableInv, TableInv', dirs' = dirs,
           \A p \in Paths : Len(mounts'[p]) = Len(mounts[p])
    PROVE  TableKept
<1>1. ASSUME NEW u \in Uses PROVE Grows(u) /\ Stays(u)
  <2>1. /\ Len(mounts[T(u)]) \in Nat
        /\ mounts[T(u)] = <<>> <=> Len(mounts[T(u)]) = 0
    BY LenFacts
  <2>2. T(u) \in Paths
    BY PathFacts
  <2>3. Len(mounts'[T(u)]) = 0 => mounts'[T(u)] = <<>>
    <3>1. mounts'[T(u)] \in Seq(Entry)
      BY <2>2 DEF TableInv
    <3>2. QED
      BY <3>1, EmptySeq
  <2>4. QED
    BY <2>1, <2>2, <2>3 DEF Grows, Stays, Unbound
<1>2. QED
  BY <1>1 DEF TableKept

(* The path of a call is the target of its use. *)
LEMMA CallPath ==
    ASSUME TypeInv, NEW w \in Workers, call[w].pc # "idle"
    PROVE  /\ <<call[w].app, call[w].vol>> \in Uses
           /\ PathOf(w) = T(<<call[w].app, call[w].vol>>)
           /\ PathOf(w) \in Paths /\ PathOf(w).kind = "target"
           /\ call[w].app \in Apps /\ call[w].vol \in Vols
<1>1. <<call[w].app, call[w].vol>> \in Uses
  BY DEF TypeInv, TypeOK, IdleCall
<1>2. PathOf(w) = T(<<call[w].app, call[w].vol>>)
  BY DEF PathOf, T
<1>3. QED
  BY <1>1, <1>2, PathFacts

(* Another stack on the path of one use. *)
LEMMA OneTarget ==
    ASSUME TableInv, TableInv', NEW x \in Uses, dirs' \subseteq dirs,
           \A q \in Paths : q # T(x) => mounts'[q] = mounts[q],
           Grows(x), Stays(x)
    PROVE  TableKept
<1>1. ASSUME NEW u \in Uses, u # x PROVE Grows(u) /\ Stays(u)
  <2>1. T(u) # T(x) /\ T(u) \in Paths
    BY <1>1, PathFacts
  <2>2. mounts'[T(u)] = mounts[T(u)] /\ Len(mounts[T(u)]) \in Nat
    BY <2>1, LenFacts
  <2>3. QED
    BY <2>2 DEF Grows, Stays, Unbound
<1>2. QED
  BY <1>1 DEF TableKept

(* Another stack on the path of a subPath. *)
LEMMA OneSubPath ==
    ASSUME TableInv, TableInv', NEW p \in Paths, p.kind = "subpath",
           dirs' \subseteq dirs, \A q \in Paths : q # p => mounts'[q] = mounts[q]
    PROVE  TableKept
<1>1. ASSUME NEW u \in Uses PROVE Grows(u) /\ Stays(u)
  <2>1. T(u) # p /\ T(u) \in Paths
    BY PathFacts
  <2>2. mounts'[T(u)] = mounts[T(u)] /\ Len(mounts[T(u)]) \in Nat
    BY <2>1, LenFacts
  <2>3. QED
    BY <2>2 DEF Grows, Stays, Unbound
<1>2. QED
  BY <1>1 DEF TableKept

LEMMA CallTable ==
    ASSUME TypeInv, EntryInv, CallInv, NEW w \in Workers, Call(w)
    PROVE  TableKept
<1> DEFINE u == <<call[w].app, call[w].vol>>
           p == PathOf(w)
<1>1. TableInv
  BY DEF TableInv, TypeInv, TypeOK, SrcStates
<1>2. call[w].pc # "idle"
  BY DEF Call, PublishMkdir, JMount, WaitReady, CreateVol, PublishBind,
         UmountLoop, CleanTarget, JUmount
<1>3. /\ u \in Uses /\ p = T(u) /\ p \in Paths /\ p.kind = "target"
      /\ call[w].vol \in Vols /\ u[1] = call[w].app
  BY <1>2, CallPath
<1>4. /\ Len(mounts[p]) \in Nat
      /\ mounts[p] = <<>> <=> Len(mounts[p]) = 0
  BY <1>1, <1>3, LenFacts
<1>5. CASE PublishMkdir(w)
  <2>1. CASE dirs' = dirs
    BY <1>1, <1>5, <2>1, SameMounts DEF PublishMkdir, TableInv
  <2>2. CASE dirs' = dirs \cup {p}
    <3>1. app[u[1]] \notin Leaving
      BY <1>3, <1>5 DEF PublishMkdir, CallInv
    <3>2. mounts' = mounts /\ src' = src /\ subdirs' = subdirs
      BY <1>5 DEF PublishMkdir
    <3>3. TableInv'
      BY <1>1, <1>3, <2>2, <3>2 DEF TableInv, EntryInv
    <3>4. ASSUME NEW x \in Uses PROVE Grows(x) /\ Stays(x)
      <4>1. Len(mounts[T(x)]) \in Nat /\ (T(x) = T(u) => x = u)
        BY <1>1, <1>3, LenFacts, PathFacts
      <4>2. Grows(x)
        BY <3>2, <4>1 DEF Grows
      <4>3. Stays(x)
        BY <1>3, <2>2, <3>1, <3>2, <4>1, Zenon DEF Stays, Unbound
      <4>4. QED
        BY <4>2, <4>3
    <3>5. QED
      BY <3>3, <3>4 DEF TableKept
  <2>3. QED
    BY <1>5, <2>1, <2>2 DEF PublishMkdir
<1>6. CASE JMount(w) \/ WaitReady(w) \/ JUmount(w)
  BY <1>1, <1>6, SameMounts DEF JMount, WaitReady, JUmount, tableVars, TableInv
<1>7. CASE CreateVol(w)
  <2>1. mounts' = mounts /\ dirs' = dirs /\ subdirs' = subdirs
    BY <1>7 DEF CreateVol
  <2>2. src' \in [Vols -> SrcStates]
    <3>1. \/ src' = src
          \/ src' = [src EXCEPT ![call[w].vol] = IF @ = "none" THEN "dir" ELSE @]
      BY <1>7 DEF CreateVol
    <3>2. QED
      BY <1>1, <3>1 DEF TableInv, SrcStates
  <2>3. QED
    BY <1>1, <2>1, <2>2, SameMounts DEF TableInv
<1>8. CASE PublishBind(w)
  <2>1. CASE \E st \in Shown(call[w].vol) : BindMount(p, call[w].vol, st)
    <3>1. PICK st \in Shown(call[w].vol) : BindMount(p, call[w].vol, st)
      BY <2>1
    <3>2. /\ TableInv' /\ dirs' = dirs /\ p \in dirs
          /\ Len(mounts'[p]) = Len(mounts[p]) + 1
          /\ \A q \in Paths : q # p => mounts'[q] = mounts[q]
      BY <1>1, <1>3, <3>1, BindKeeps
    <3>3. Grows(u) /\ Stays(u)
      BY <1>3, <1>4, <3>2 DEF Grows, Stays, Unbound
    <3>4. QED
      BY <1>1, <1>3, <3>2, <3>3, OneTarget
  <2>2. CASE /\ dirs' = IF mounts[p] = <<>> THEN dirs \ {p} ELSE dirs
             /\ UNCHANGED <<mounts, src, subdirs>>
    BY <1>1, <2>2, SameMounts DEF TableInv
  <2>3. QED
    BY <1>8, <2>1, <2>2 DEF PublishBind
<1>9. CASE UmountLoop(w) \/ CleanTarget(w)
  <2>1. app[u[1]] \in Leaving
    BY <1>3, <1>9 DEF UmountLoop, CleanTarget, CallInv
  <2>2. /\ TableInv' /\ dirs' \subseteq dirs
        /\ mounts[p] = <<>> => mounts'[p] = <<>>
        /\ \A q \in Paths : q # p => mounts'[q] = mounts[q]
    <3>1. CASE UmountLoop(w)
      BY <1>1, <1>3, <3>1, UmountKeeps DEF UmountLoop
    <3>2. CASE CleanTarget(w)
      BY <1>1, <1>3, <3>2, CleanupKeeps DEF CleanTarget
    <3>3. QED
      BY <1>9, <3>1, <3>2
  <2>3. Grows(u) /\ Stays(u)
    BY <1>3, <2>1, <2>2 DEF Grows, Stays, Unbound
  <2>4. QED
    BY <1>1, <1>3, <2>2, <2>3, OneTarget
<1>10. QED
  BY <1>5, <1>6, <1>7, <1>8, <1>9 DEF Call

LEMMA ReconcileTable ==
    ASSUME TypeInv, EntryInv, Reconcile
    PROVE  /\ TableInv'
           /\ \/ TableKept
              \/ \E it \in rec.items : RecUmount(it)
<1>1. TableInv
  BY DEF TableInv, TypeInv, TypeOK, SrcStates
<1>2. CASE UNCHANGED tableVars
  BY <1>1, <1>2, SameMounts DEF tableVars, TableInv, TableKept
<1>3. CASE RecClean
  <2>1. rec.vol \in Vols
    BY <1>3 DEF RecClean, TypeInv, RoundInv
  <2>2. CASE UNCHANGED tableVars
    BY <1>2, <2>2
  <2>3. CASE CleanSource(rec.vol)
    <3>1. /\ src' \in [Vols -> SrcStates] /\ mounts' = mounts /\ dirs' = dirs
          /\ subdirs' = subdirs
      BY <1>1, <2>1, <2>3 DEF CleanSource, TableInv, SrcStates
    <3>2. TableKept
      BY <1>1, <3>1, SameMounts DEF TableInv
    <3>3. QED
      BY <3>2 DEF TableKept
  <2>4. QED
    BY <1>3, <2>2, <2>3 DEF RecClean
<1>4. ASSUME NEW it \in rec.items, RecUmount(it) PROVE TableInv'
  <2>1. it.path \in Paths
    BY <1>4 DEF TypeInv, TypeOK, Item
  <2>2. QED
    BY <1>1, <1>4, <2>1, UmountKeeps DEF RecUmount
<1>5. ASSUME NEW it \in rec.items, RecBind(it) PROVE TableKept
  <2>1. it.path \in Paths /\ rec.vol \in Vols
    BY <1>5 DEF TypeInv, TypeOK, Item, RecBind, Current, RoundInv
  <2>2. CASE UNCHANGED tableVars
    BY <1>1, <2>2, SameMounts DEF tableVars, TableInv
  <2>3. CASE \E st \in Shown(rec.vol) : BindMount(it.path, rec.vol, st)
    <3>1. PICK st \in Shown(rec.vol) : BindMount(it.path, rec.vol, st)
      BY <2>3
    <3> DEFINE p == it.path
    <3>2. /\ TableInv' /\ dirs' = dirs /\ p \in dirs
          /\ Len(mounts[p]) \in Nat
          /\ Len(mounts'[p]) = Len(mounts[p]) + 1
          /\ \A q \in Paths : q # p => mounts'[q] = mounts[q]
      BY <1>1, <2>1, <3>1, BindKeeps
    <3>3. CASE p.kind = "subpath"
      BY <1>1, <2>1, <3>2, <3>3, OneSubPath
    <3>4. CASE p.kind # "subpath"
      <4>1. PICK u \in Uses : p = T(u)
        BY <2>1, <3>4, PathFacts
      <4>2. Grows(u) /\ Stays(u)
        BY <3>2, <4>1 DEF Grows, Stays, Unbound
      <4>3. QED
        BY <1>1, <3>2, <4>1, <4>2, OneTarget
    <3>5. QED
      BY <3>3, <3>4
  <2>4. QED
    BY <1>5, <2>2, <2>3 DEF RecBind
<1>6. QED
  BY <1>2, <1>3, <1>4, <1>5
  DEF Reconcile, RecList, RecParse, RecEnd, RecRun, PodDeletedHandler,
      RecLock, RecRecreate, PodReadyHandler, RecRecovered, RecResolve, TableKept

LEMMA ContainerTable ==
    ASSUME TypeInv, EntryInv, NEW v \in Vols,
           Container(v) \/ Probe(v) \/ LateClean(v)
           \/ ClientCrash(v) \/ UserDelete(v) \/ RemoveDir(v)
    PROVE  TableKept
<1>1. TableInv
  BY DEF TableInv, TypeInv, TypeOK, SrcStates
<1>2. CASE PodGone(v) \/ Probe(v) \/ UserDelete(v)
  BY <1>1, <1>2, SameMounts DEF PodGone, Probe, UserDelete, tableVars, TableInv
<1>3. CASE ClientUp(v) \/ PreStop(v) \/ LateClean(v)
  <2>1. /\ src' \in [Vols -> SrcStates] /\ mounts' = mounts /\ dirs' = dirs
        /\ subdirs' = subdirs
    BY <1>1, <1>3 DEF ClientUp, PreStop, LateClean, CleanSource, TableInv, SrcStates
  <2>2. QED
    BY <1>1, <2>1, SameMounts DEF TableInv
<1>4. CASE ClientStops(v) \/ ClientCrash(v)
  BY <1>1, <1>4, DiesKeeps, SameLengths DEF ClientStops, ClientCrash
<1>5. CASE RemoveDir(v)
  BY <1>1, <1>5, RemovedKeeps, SameLengths DEF RemoveDir
<1>6. QED
  BY <1>2, <1>3, <1>4, <1>5 DEF Container

LEMMA KubeletTable ==
    ASSUME TypeInv, EntryInv, NEW a \in Apps, Kubelet(a) \/ AppDelete(a)
    PROVE  TableKept
<1>1. TableInv
  BY DEF TableInv, TypeInv, TypeOK, SrcStates
<1>2. CASE UNCHANGED tableVars
  BY <1>1, <1>2, SameMounts DEF tableVars, TableInv
<1>3. ASSUME NEW u \in SubUses, SubPathBind(u) PROVE TableKept
  <2>1. /\ TableInv'
        /\ \A x \in Uses : /\ mounts'[T(x)] = mounts[T(x)]
                           /\ T(x) \in dirs' => T(x) \in dirs
    BY <1>1, <1>3, SubPathBindKeeps
  <2>2. \A x \in Uses : Grows(x) /\ Stays(x)
    BY <1>1, <2>1, LenFacts DEF Grows, Stays, Unbound
  <2>3. QED
    BY <2>1, <2>2 DEF TableKept
<1>4. ASSUME NEW u \in SubUses, SubPathClean(u) PROVE TableKept
  <2> DEFINE p == SubPath(u[1], u[2])
  <2>1. p \in Paths /\ p.kind = "subpath"
    BY PathFacts
  <2>2. Umount(p)
    BY <1>4 DEF SubPathClean
  <2> HIDE DEF p
  <2>3. QED
    BY <1>1, <2>1, <2>2, UmountKeeps, OneSubPath
<1>5. QED
  BY <1>2, <1>3, <1>4
  DEF Kubelet, AppCreate, AppRun, AppGone, AppDelete, AppStep, AskPublish,
      AskUnpublish, Ask

(* Only umountTarget takes a mount from a pod that is not being deleted. *)
LEMMA TableStep ==
    ASSUME TypeInv, EntryInv, CallInv, [Next]_vars
    PROVE  /\ TableInv'
           /\ TableKept \/ \E it \in rec.items : RecUmount(it)
<1>1. TableInv
  BY DEF TableInv, TypeInv, TypeOK, SrcStates
<1>2. CASE UNCHANGED vars \/ PluginCrash \/ \E u \in Uses : CallTimeout(u)
  <2>1. UNCHANGED tableVars
    BY <1>2 DEF vars, PluginCrash, CallTimeout
  <2>2. QED
    BY <1>1, <2>1, SameMounts DEF tableVars, TableInv, TableKept
<1>3. CASE \E w \in Workers : Call(w)
  BY <1>3, CallTable DEF TableKept
<1>4. CASE Reconcile
  BY <1>4, ReconcileTable
<1>5. CASE \E v \in Vols : Container(v) \/ Probe(v) \/ LateClean(v)
              \/ ClientCrash(v) \/ UserDelete(v) \/ RemoveDir(v)
  BY <1>5, ContainerTable DEF TableKept
<1>6. CASE \E a \in Apps : Kubelet(a) \/ AppDelete(a)
  BY <1>6, KubeletTable DEF TableKept
<1>7. QED
  BY <1>2, <1>3, <1>4, <1>5, <1>6 DEF Next, Fault

-----------------------------------------------------------------------------
(* Types *)

LEMMA PodFacts ==
    /\ Absent \in Pod
    /\ \A refs \in SUBSET Apps : NewPod(refs) \in Pod
    /\ \A p \in Pod :
          /\ p.refs \subseteq Apps /\ p.phase \in {"absent", "live", "terminating"}
          /\ \A refs \in SUBSET Apps : [p EXCEPT !.refs = refs] \in Pod
          /\ \A ph \in {"absent", "live", "terminating"} :
                [p EXCEPT !.phase = ph] \in Pod
          /\ \A b \in BOOLEAN : /\ [p EXCEPT !.fin = b] \in Pod
                                /\ [p EXCEPT !.up = b] \in Pod
                                /\ [p EXCEPT !.ready = b] \in Pod
<1>1. Absent \in Pod
  BY DEF Absent, Pod
<1>2. \A refs \in SUBSET Apps : NewPod(refs) \in Pod
  BY DEF Absent, NewPod, Pod
<1>3. QED
  BY <1>1, <1>2 DEF Pod

LEMMA OnePod ==
    ASSUME pod \in [Vols -> Pod], NEW v, NEW p \in Pod,
           pod' = [pod EXCEPT ![v] = p]
    PROVE  pod' \in [Vols -> Pod]
OBVIOUS

LEMMA CallPod ==
    ASSUME TypeInv, NEW w \in Workers, Call(w)
    PROVE  pod' \in [Vols -> Pod]
<1> DEFINE v == call[w].vol
           a == call[w].app
<1>1. pod \in [Vols -> Pod]
  BY DEF TypeInv, TypeOK
<1>2. CASE JMount(w)
  <2>1. v \in Vols /\ a \in Apps
    BY <1>2, CallPath DEF JMount
  <2>2. pod[v] \in Pod /\ pod[v].refs \subseteq Apps
    BY <1>1, <2>1, PodFacts
  <2>3. /\ NewPod({a}) \in Pod
        /\ [pod[v] EXCEPT !.refs = pod[v].refs \cup {a}] \in Pod
    BY <2>1, <2>2, PodFacts
  <2>4. \/ pod' = [pod EXCEPT ![v] = NewPod({a})]
        \/ pod' = [pod EXCEPT ![v] = [pod[v] EXCEPT !.refs = pod[v].refs \cup {a}]]
    <3>1. CASE pod[v].phase = "absent"
      BY <1>2, <3>1 DEF JMount
    <3>2. CASE pod[v].phase # "absent"
      BY <1>2, <3>2 DEF JMount
    <3>3. QED
      BY <3>1, <3>2
  <2>5. QED
    BY <1>1, <2>3, <2>4, OnePod
<1>3. CASE JUmount(w)
  <2> DEFINE refs == pod[v].refs \ {a}
             ph == IF refs = {} THEN "terminating" ELSE pod[v].phase
             q == [pod[v] EXCEPT !.refs = refs]
             r == [pod[v] EXCEPT !.refs = refs, !.phase = ph]
  <2>1. v \in Vols
    BY <1>3, CallPath DEF JUmount
  <2>2. pod[v] \in Pod /\ refs \in SUBSET Apps
        /\ ph \in {"absent", "live", "terminating"}
    BY <1>1, <2>1, PodFacts
  <2>3. r \in Pod
    <3>1. q \in Pod
      BY <2>2, PodFacts
    <3>2. [q EXCEPT !.phase = ph] \in Pod
      BY <2>2, <3>1, PodFacts
    <3>3. QED
      BY <3>2
  <2>4. \/ pod' = [pod EXCEPT ![v] = pod[v]]
        \/ pod' = [pod EXCEPT ![v] = r]
    <3>1. CASE pod[v].phase = "absent"
      BY <1>3, <3>1 DEF JUmount
    <3>2. CASE pod[v].phase # "absent"
      BY <1>3, <3>2 DEF JUmount
    <3>3. QED
      BY <3>1, <3>2
  <2>5. QED
    BY <1>1, <2>2, <2>3, <2>4, OnePod
<1>4. CASE UNCHANGED pod
  BY <1>1, <1>4
<1>5. QED
  BY <1>2, <1>3, <1>4
  DEF Call, PublishMkdir, WaitReady, CreateVol, PublishBind, UmountLoop,
      CleanTarget

LEMMA ReconcilePod ==
    ASSUME TypeInv, Reconcile
    PROVE  pod' \in [Vols -> Pod]
<1>1. pod \in [Vols -> Pod]
  BY DEF TypeInv, TypeOK
<1>2. ASSUME NEW v \in Vols, RecRun(v) PROVE pod' \in [Vols -> Pod]
  <2> DEFINE kept == rec.pods[v].refs \subseteq Alive
             q == [pod[v] EXCEPT !.refs = pod[v].refs \cap Alive]
             cur == IF kept THEN rec.pods[v] ELSE q
             now == IF kept THEN pod[v] ELSE q
             ph == IF (cur.refs = {} /\ cur.phase = "live")
                      /\ pod[v].phase # "absent"
                   THEN "terminating" ELSE now.phase
  <2>1. pod[v] \in Pod /\ pod[v].refs \cap Alive \in SUBSET Apps
    BY <1>1, PodFacts DEF Alive
  <2>2. q \in Pod
    BY <2>1, PodFacts
  <2>3. now \in Pod
    BY <2>1, <2>2
  <2>4. ph \in {"absent", "live", "terminating"}
    BY <2>3, PodFacts
  <2>5. [now EXCEPT !.phase = ph] \in Pod
    BY <2>3, <2>4, PodFacts
  <2>6. pod' = [pod EXCEPT ![v] = [now EXCEPT !.phase = ph]]
    <3>1. CASE kept
      <4>1. now = pod[v] /\ cur = rec.pods[v]
        BY <3>1
      <4>2. QED
        BY <1>2, <3>1, <4>1 DEF RecRun
    <3>2. CASE ~kept
      BY <1>2, <3>2 DEF RecRun
    <3>3. QED
      BY <3>1, <3>2
  <2>7. QED
    BY <1>1, <2>5, <2>6, OnePod
<1>3. CASE PodDeletedHandler
  <2>1. rec.vol \in Vols
    BY <1>3 DEF PodDeletedHandler, TypeInv, RoundInv
  <2>2. [pod[rec.vol] EXCEPT !.fin = FALSE] \in Pod
    BY <1>1, <2>1, PodFacts
  <2>3. pod' = pod \/ pod' = [pod EXCEPT ![rec.vol] = [pod[rec.vol] EXCEPT !.fin = FALSE]]
    BY <1>3 DEF PodDeletedHandler
  <2>4. QED
    BY <1>1, <2>2, <2>3, OnePod
<1>4. CASE RecRecreate
  <2> DEFINE v == rec.vol
  <2>1. v \in Vols /\ rec.targets \in SUBSET Apps
    BY <1>4 DEF RecRecreate, TypeInv, RoundInv, Rounds
  <2>2. pod[v] \in Pod /\ pod[v].refs \cup rec.targets \in SUBSET Apps
    BY <1>1, <2>1, PodFacts
  <2>3. /\ NewPod(rec.targets) \in Pod
        /\ [pod[v] EXCEPT !.refs = pod[v].refs \cup rec.targets] \in Pod
    BY <2>1, <2>2, PodFacts
  <2>4. \/ pod' = [pod EXCEPT ![v] = NewPod(rec.targets)]
        \/ pod' = [pod EXCEPT ![v] =
                     [pod[v] EXCEPT !.refs = pod[v].refs \cup rec.targets]]
        \/ pod' = [pod EXCEPT ![v] = pod[v]]
    <3>1. CASE pod[v].phase = "absent"
      BY <1>4, <3>1 DEF RecRecreate
    <3>2. CASE pod[v].phase = "live"
      BY <1>4, <3>2 DEF RecRecreate
    <3>3. CASE pod[v].phase # "absent" /\ pod[v].phase # "live"
      BY <1>4, <3>3, Zenon DEF RecRecreate
    <3>4. QED
      BY <3>1, <3>2, <3>3
  <2>5. QED
    BY <1>1, <2>2, <2>3, <2>4, OnePod
<1>5. CASE UNCHANGED pod
  BY <1>1, <1>5
<1>6. QED
  BY <1>2, <1>3, <1>4, <1>5
  DEF Reconcile, RecList, RecParse, RecEnd, RecClean, RecLock,
      PodReadyHandler, RecRecovered, RecResolve, RecUmount, RecBind

LEMMA PodType ==
    ASSUME TypeInv, [Next]_vars
    PROVE  pod' \in [Vols -> Pod]
<1>1. pod \in [Vols -> Pod]
  BY DEF TypeInv, TypeOK
<1>2. CASE UNCHANGED pod
  BY <1>1, <1>2
<1>3. ASSUME NEW v \in Vols, pod' # pod,
             Container(v) \/ Probe(v) \/ LateClean(v)
             \/ ClientCrash(v) \/ UserDelete(v) \/ RemoveDir(v)
      PROVE  pod' \in [Vols -> Pod]
  <2>1. pod[v] \in Pod
    BY <1>1
  <2>2. /\ [pod[v] EXCEPT !.up = TRUE] \in Pod
        /\ [pod[v] EXCEPT !.ready = (src[v] = "live")] \in Pod
        /\ [pod[v] EXCEPT !.phase = "terminating"] \in Pod
        /\ [pod[v] EXCEPT !.up = FALSE] \in Pod
    BY <2>1, PodFacts
  <2>3. [pod[v] EXCEPT !.up = FALSE, !.ready = FALSE] \in Pod
    <3>1. [[pod[v] EXCEPT !.up = FALSE] EXCEPT !.ready = FALSE] \in Pod
      BY <2>2, PodFacts
    <3>2. QED
      BY <3>1
  <2>4. \/ pod' = [pod EXCEPT ![v].up = TRUE]
        \/ pod' = [pod EXCEPT ![v].ready = (src[v] = "live")]
        \/ pod' = [pod EXCEPT ![v].phase = "terminating"]
        \/ pod' = [pod EXCEPT ![v].up = FALSE, ![v].ready = FALSE]
        \/ pod' = [pod EXCEPT ![v] = Absent]
    BY <1>3 DEF Container, ClientUp, PreStop, ClientStops, PodGone, Probe,
                LateClean, ClientCrash, UserDelete, RemoveDir
  <2>5. CASE pod' = [pod EXCEPT ![v].up = FALSE, ![v].ready = FALSE]
    <3>1. pod' = [pod EXCEPT ![v] = [pod[v] EXCEPT !.up = FALSE, !.ready = FALSE]]
      BY <1>1, <2>5
    <3>2. QED
      BY <1>1, <2>3, <3>1, OnePod
  <2>6. QED
    BY <1>1, <2>2, <2>4, <2>5, OnePod, PodFacts
<1>4. QED
  BY <1>2, <1>3, CallPod, ReconcilePod
  DEF Next, Fault, vars, Kubelet, AppCreate, AppRun, AppGone, AppDelete,
      AppStep, SubPathBind, SubPathClean, AskPublish, AskUnpublish, Ask,
      CallTimeout, PluginCrash

LEMMA CallShape ==
    ASSUME TypeInv, NEW w \in Workers, Call(w)
    PROVE  /\ call[w].pc # "idle"
           /\ UNCHANGED <<app, rec, hanging>>
           /\ faults' \in 0..MaxFaults
           /\ \/ \E label \in CallLabels \ {"p_mkdir"} :
                    /\ Goto(w, label)
                    /\ UNCHANGED <<vstate, asked>>
                    /\ label \in {"u_loop", "u_clean", "u_ref"} =>
                          call[w].pc \in {"u_loop", "u_clean"}
                    /\ label = "u_ref" =>
                          /\ CleanupMountPoint(PathOf(w))
                          /\ ~CleanupFails(PathOf(w))
              \/ \E answer \in {"uncertain", "published", "unpublished"} :
                    /\ Return(w, answer)
                    /\ answer = "published" =>
                          \E st \in Shown(call[w].vol) :
                             BindMount(PathOf(w), call[w].vol, st)
                    /\ answer = "unpublished" =>
                          call[w].pc = "u_ref" /\ UNCHANGED tableVars
<1>1. faults \in 0..MaxFaults /\ MaxFaults \in Nat
  BY RecoveryAssumption DEF TypeInv, TypeOK
<1> DEFINE Quiet == {"p_ref", "p_wait", "p_vol", "p_bind"}
<1>2. \A label \in Quiet : /\ label \in CallLabels \ {"p_mkdir"}
                          /\ label \notin {"u_loop", "u_clean", "u_ref"}
                          /\ label # "u_ref"
  BY DEF CallLabels
<1>3. "uncertain" # "published" /\ "uncertain" # "unpublished"
  OBVIOUS
<1>4. /\ \A l \in Quiet \cup {"p_mkdir", "u_loop", "u_clean", "u_ref"} : l # "idle"
      /\ \A l : Continue(w, l) => /\ Goto(w, l) /\ faults' = faults
                 /\ UNCHANGED <<app, rec, hanging>> /\ UNCHANGED <<vstate, asked>>
      /\ \A r : Return(w, r) => UNCHANGED <<app, rec, hanging>> /\ faults' = faults
  BY DEF Continue, Return
<1>5. ASSUME NEW l \in Quiet, Continue(w, l), call[w].pc # "idle"
      PROVE  /\ UNCHANGED <<app, rec, hanging>> /\ faults' \in 0..MaxFaults
             /\ \E label \in CallLabels \ {"p_mkdir"} :
                    /\ Goto(w, label)
                    /\ UNCHANGED <<vstate, asked>>
                    /\ label \in {"u_loop", "u_clean", "u_ref"} =>
                          call[w].pc \in {"u_loop", "u_clean"}
                    /\ label = "u_ref" =>
                          /\ CleanupMountPoint(PathOf(w))
                          /\ ~CleanupFails(PathOf(w))
  BY <1>1, <1>2, <1>4, <1>5, Zenon
<1>6. ASSUME Return(w, "uncertain"), call[w].pc # "idle"
      PROVE  /\ UNCHANGED <<app, rec, hanging>> /\ faults' \in 0..MaxFaults
             /\ \E answer \in {"uncertain", "published", "unpublished"} :
                    /\ Return(w, answer)
                    /\ answer = "published" =>
                          \E st \in Shown(call[w].vol) :
                             BindMount(PathOf(w), call[w].vol, st)
                    /\ answer = "unpublished" =>
                          call[w].pc = "u_ref" /\ UNCHANGED tableVars
  BY <1>1, <1>3, <1>4, <1>6, Zenon
<1> HIDE DEF Quiet
<1>7. {"p_ref", "p_wait", "p_vol", "p_bind"} \subseteq Quiet
  BY DEF Quiet
<1>8. call[w].pc # "idle"
  BY DEF Call, PublishMkdir, JMount, WaitReady, CreateVol, PublishBind,
         UmountLoop, CleanTarget, JUmount
<1>9. CASE PublishMkdir(w)
  BY <1>5, <1>6, <1>7, <1>8, <1>9, Zenon DEF PublishMkdir
<1>10. CASE JMount(w)
  BY <1>5, <1>6, <1>7, <1>8, <1>10, Zenon DEF JMount
<1>11. CASE WaitReady(w)
  BY <1>5, <1>6, <1>7, <1>8, <1>11, Zenon DEF WaitReady
<1>12. CASE CreateVol(w)
  BY <1>5, <1>6, <1>7, <1>8, <1>12, Zenon DEF CreateVol
<1>13. CASE PublishBind(w)
  BY <1>1, <1>13, Zenon DEF PublishBind, Return, CallLabels
<1>14. CASE UmountLoop(w)
  <2>1. faults' \in 0..MaxFaults
    BY <1>1, <1>14 DEF UmountLoop, Continue, OneShot
  <2>2. \E label \in {"u_loop", "u_clean"} :
           Goto(w, label) /\ UNCHANGED <<app, vstate, asked, rec, hanging>>
    BY <1>14, Zenon DEF UmountLoop, Continue
  <2>3. QED
    BY <1>14, <2>1, <2>2, Zenon DEF UmountLoop, CallLabels
<1>15. CASE CleanTarget(w)
  BY <1>1, <1>15, Zenon DEF CleanTarget, Continue, Return, CallLabels
<1>16. CASE JUmount(w)
  BY <1>1, <1>16, Zenon DEF JUmount, Return, CallLabels
<1>17. QED
  BY <1>9, <1>10, <1>11, <1>12, <1>13, <1>14, <1>15, <1>16 DEF Call

Answers == {"none", "uncertain", "published", "unpublished"}

(* What TypeOK says of calls, and of the record of kubelet. *)
CallType ==
    /\ app \in [Apps -> AppStates]
    /\ vstate \in [Uses -> Answers]
    /\ asked \in [Uses -> Workers \cup {Nobody}]
    /\ call \in [Workers -> Calls]
    /\ \A w \in Workers :
          \/ call[w] = IdleCall
          \/ /\ call[w].pc \in CallLabels
             /\ <<call[w].app, call[w].vol>> \in Uses

LEMMA CallTypeStep ==
    ASSUME TypeInv, [Next]_vars
    PROVE  CallType'
<1>1. CallType
  BY DEF TypeInv, TypeOK, CallType, AppStates, Answers
<1>2. IdleCall \in Calls
  BY DEF IdleCall, Calls
<1>3. CASE UNCHANGED <<app, vstate, asked, call>>
  BY <1>1, <1>3 DEF CallType
<1>4. ASSUME NEW w \in Workers, Call(w) PROVE CallType'
  <2> DEFINE u == <<call[w].app, call[w].vol>>
  <2>1. u \in Uses /\ app' = app
    BY <1>4, CallShape, CallPath
  <2>2. ASSUME NEW label \in CallLabels, Goto(w, label), UNCHANGED <<vstate, asked>>
        PROVE  CallType'
    <3>1. call' = [call EXCEPT ![w] = [call[w] EXCEPT !.pc = label]]
      BY <2>2 DEF Goto
    <3>2. [call[w] EXCEPT !.pc = label] \in Calls
      BY <1>1 DEF CallType, Calls
    <3>3. call' \in [Workers -> Calls]
      BY <1>1, <3>1, <3>2 DEF CallType
    <3>4. /\ call'[w].pc = label
          /\ call'[w].app = call[w].app /\ call'[w].vol = call[w].vol
          /\ \A x \in Workers : x # w => call'[x] = call[x]
      BY <1>1, <3>1 DEF CallType, Calls
    <3>5. QED
      BY <1>1, <2>1, <2>2, <3>3, <3>4 DEF CallType
  <2>3. ASSUME NEW answer \in Answers, Return(w, answer)
        PROVE  CallType'
    <3>1. call' = [call EXCEPT ![w] = IdleCall]
      BY <2>3 DEF Return
    <3>2. /\ call' \in [Workers -> Calls] /\ call'[w] = IdleCall
          /\ \A x \in Workers : x # w => call'[x] = call[x]
      BY <1>1, <1>2, <3>1 DEF CallType
    <3>3. /\ asked' \in [Uses -> Workers \cup {Nobody}]
          /\ vstate' \in [Uses -> Answers]
      <4>1. \/ asked' = asked /\ vstate' = vstate
            \/ /\ asked' = [asked EXCEPT ![u] = Nobody]
               /\ vstate' = [vstate EXCEPT ![u] = answer]
        BY <2>3 DEF Return
      <4>2. QED
        BY <1>1, <4>1 DEF CallType
    <3>4. QED
      BY <1>1, <2>1, <3>2, <3>3 DEF CallType
  <2>4. QED
    BY <1>4, <2>2, <2>3, CallShape DEF Answers
<1>5. ASSUME NEW w \in Workers, NEW u \in Uses,
             AskPublish(w, u) \/ AskUnpublish(w, u)
      PROVE  CallType'
  <2>1. PICK label \in CallLabels : Ask(w, u, label)
    BY <1>5 DEF AskPublish, AskUnpublish, CallLabels
  <2> DEFINE c == [pc |-> label, app |-> u[1], vol |-> u[2]]
  <2>2. /\ c \in Calls /\ c.pc = label /\ c.app = u[1] /\ c.vol = u[2]
    BY PathFacts DEF Calls
  <2> HIDE DEF c
  <2>3. call' = [call EXCEPT ![w] = c] /\ asked' = [asked EXCEPT ![u] = w]
        /\ app' = app
    BY <2>1 DEF Ask, c
  <2>4. /\ call' \in [Workers -> Calls] /\ call'[w] = c
        /\ \A x \in Workers : x # w => call'[x] = call[x]
    BY <1>1, <2>2, <2>3 DEF CallType
  <2>5. vstate' \in [Uses -> Answers]
    BY <1>1, <1>5 DEF AskPublish, AskUnpublish, CallType, Answers
  <2>6. asked' \in [Uses -> Workers \cup {Nobody}]
    BY <1>1, <2>3 DEF CallType
  <2>7. <<c.app, c.vol>> \in Uses
    BY <2>2, PathFacts
  <2>8. QED
    BY <1>1, <2>2, <2>3, <2>4, <2>5, <2>6, <2>7 DEF CallType
<1>6. ASSUME NEW a \in Apps,
             AppCreate(a) \/ AppRun(a) \/ AppGone(a) \/ AppDelete(a)
      PROVE  CallType'
  <2>1. /\ UNCHANGED <<vstate, asked, call>>
        /\ \E to \in AppStates : app' = [app EXCEPT ![a] = to]
    BY <1>6 DEF AppCreate, AppRun, AppGone, AppDelete, AppStep, AppStates
  <2>2. QED
    BY <1>1, <2>1 DEF CallType
<1>7. CASE (\E u \in Uses : CallTimeout(u)) \/ PluginCrash
  <2>1. /\ UNCHANGED <<app, vstate>>
        /\ asked' \in [Uses -> Workers \cup {Nobody}]
        /\ call' = call \/ call' = [w \in Workers |-> IdleCall]
    BY <1>1, <1>7 DEF CallTimeout, PluginCrash, CallType
  <2>2. QED
    BY <1>1, <1>2, <2>1 DEF CallType
<1>8. QED
  BY <1>3, <1>4, <1>5, <1>6, <1>7
  DEF Next, Fault, vars, Kubelet, UsesOf, SubPathBind, SubPathClean, Others,
      Container, ClientUp, PreStop, ClientStops, PodGone, Probe, LateClean,
      ClientCrash, UserDelete, RemoveDir, Reconcile, RecContinue, RecList,
      RecParse, RecEnd, RecRun, PodDeletedHandler, RecClean, RecLock,
      RecRecreate, PodReadyHandler, RecRecovered, RecResolve, RecUmount, RecBind

(* Who changes the round: the reconciler, and a restart of the plugin. *)
LEMMA RoundShape ==
    ASSUME TypeInv, [Next]_vars
    PROVE  \/ Reconcile
           \/ rec' = rec
           \/ rec' = IdleRec
<1>1. CASE \E w \in Workers : Call(w)
  BY <1>1, CallShape
<1>2. QED
  BY <1>1
  DEF Next, Fault, vars, Kubelet, AppCreate, AppRun, AppGone, AppDelete,
      AppStep, AskPublish, AskUnpublish, Ask, SubPathBind, SubPathClean,
      Others, Container, ClientUp, PreStop, ClientStops, PodGone, Probe,
      LateClean, ClientCrash, UserDelete, RemoveDir, CallTimeout, PluginCrash

LEMMA FaultType ==
    ASSUME TypeInv, [Next]_vars
    PROVE  hanging' \subseteq Vols /\ faults' \in 0..MaxFaults
<1>1. hanging \subseteq Vols /\ faults \in 0..MaxFaults /\ MaxFaults \in Nat
  BY RecoveryAssumption DEF TypeInv, TypeOK
<1>2. CASE \E w \in Workers : Call(w)
  BY <1>1, <1>2, CallShape
<1>3. CASE RecClean
  <2>1. rec.vol \in Vols
    BY <1>3 DEF RecClean, TypeInv, RoundInv
  <2>2. hanging' \subseteq hanging \cup {rec.vol}
    BY <1>3 DEF RecClean, RecContinue
  <2>3. faults' = faults \/ OneShot("hang")
    BY <1>3 DEF RecClean, RecContinue
  <2>4. QED
    BY <1>1, <2>1, <2>2, <2>3 DEF OneShot
<1>4. CASE Fault
  <2>1. \E class : OneShot(class)
    BY <1>4 DEF Fault, ClientCrash, UserDelete, RemoveDir, CallTimeout, PluginCrash
  <2>2. hanging' = hanging \/ hanging' = {}
    BY <1>4 DEF Fault, ClientCrash, UserDelete, RemoveDir, CallTimeout,
                PluginCrash, Others
  <2>3. QED
    BY <1>1, <2>1, <2>2 DEF OneShot
<1>5. CASE faults' = faults /\ (hanging' = hanging \/ \E v : hanging' = hanging \ {v})
  BY <1>1, <1>5
<1>6. QED
  BY <1>2, <1>3, <1>4, <1>5
  DEF Next, vars, Kubelet, AppCreate, AppRun, AppGone, AppDelete,
      AppStep, AskPublish, AskUnpublish, Ask, SubPathBind, SubPathClean,
      Others, Container, ClientUp, PreStop, ClientStops, PodGone, Probe,
      LateClean, Reconcile, RecContinue, RecList,
      RecParse, RecEnd, RecRun, PodDeletedHandler, RecLock,
      RecRecreate, PodReadyHandler, RecRecovered, RecResolve, RecUmount, RecBind

(* The items of recoverTarget: one for a path, of a path that needs it. *)
LEMMA ItemsFacts ==
    ASSUME rec.mis \in [Paths -> Found], NEW a, NEW ps \in SUBSET Paths
    PROVE  /\ Items(a, ps) \subseteq Item
           /\ \A it \in Items(a, ps) : it.path \in ps
           /\ \A it, other \in Items(a, ps) : it.path = other.path => it = other
           /\ \A it \in Items(a, ps) :
                 \/ /\ Stat(it.path) = "corrupt" /\ it.bind
                    /\ it.pops = IF rec.mis[it.path].count > 0
                                 THEN rec.mis[it.path].count - 1 ELSE 0
                 \/ rec.apps[a] = "deleting" /\ ~it.bind
<1> DEFINE n(p) == IF rec.mis[p].count > 0 THEN rec.mis[p].count - 1 ELSE 0
           Bound(p) == [path |-> p, pops |-> n(p), bind |-> TRUE]
           Off(p) == [path |-> p, pops |-> rec.mis[p].count, bind |-> FALSE]
           B == {q \in ps : /\ Stat(q) = "corrupt" /\ ~rec.mis[q].inconsistent
                            /\ rec.apps[a] # "deleting"}
           O == {q \in ps : /\ Stat(q) = "notExist" /\ rec.mis[q].count > 0
                            /\ rec.apps[a] = "deleting"}
<1>1. Items(a, ps) = {Bound(p) : p \in B} \cup {Off(p) : p \in O}
  BY DEF Items
<1>2. \A p \in ps : rec.mis[p].count \in Nat /\ n(p) \in Nat
  <2>1. \A p \in ps : rec.mis[p].count \in Nat
    BY DEF Found
  <2>2. QED
    BY <2>1
<1> HIDE DEF n
<1>3. \A p \in ps : /\ Bound(p) \in Item /\ Bound(p).path = p /\ Bound(p).pops = n(p)
                    /\ Off(p) \in Item /\ Off(p).path = p
                    /\ Bound(p).bind = TRUE /\ Off(p).bind = FALSE
  BY <1>2 DEF Item
<1>4. B \subseteq ps /\ O \subseteq ps /\ B \cap O = {}
  OBVIOUS
<1>5. /\ \A p \in B : Stat(p) = "corrupt"
      /\ \A p \in O : rec.apps[a] = "deleting"
  OBVIOUS
<1> HIDE DEF Bound, Off, B, O
<1>6. \A it \in Items(a, ps) : \/ \E p \in B : it = Bound(p)
                               \/ \E p \in O : it = Off(p)
  BY <1>1
<1>7. ASSUME NEW it \in Items(a, ps)
      PROVE  /\ it \in Item /\ it.path \in ps
             /\ \/ it.path \in B /\ it = Bound(it.path)
                \/ it.path \in O /\ it = Off(it.path)
  BY <1>3, <1>4, <1>6
<1>8. ASSUME NEW it \in Items(a, ps)
      PROVE  \/ /\ Stat(it.path) = "corrupt" /\ it.bind
                /\ it.pops = IF rec.mis[it.path].count > 0
                             THEN rec.mis[it.path].count - 1 ELSE 0
             \/ rec.apps[a] = "deleting" /\ ~it.bind
  <2>1. CASE it.path \in B /\ it = Bound(it.path)
    <3>1. it.pops = n(it.path) /\ it.bind
      BY <1>3, <1>7, <2>1
    <3>2. QED
      BY <1>5, <2>1, <3>1 DEF n
  <2>2. CASE it.path \in O /\ it = Off(it.path)
    <3>1. ~it.bind
      BY <1>3, <1>7, <2>2
    <3>2. QED
      BY <1>5, <2>2, <3>1
  <2>3. QED
    BY <1>7, <2>1, <2>2
<1>9. ASSUME NEW it \in Items(a, ps), NEW other \in Items(a, ps), it.path = other.path
      PROVE  it = other
  <2>1. ~(it.path \in B /\ it.path \in O)
    BY <1>4
  <2>2. QED
    BY <1>7, <1>9, <2>1
<1>10. QED
  BY <1>7, <1>8, <1>9

LEMMA DoneFacts ==
    ASSUME rec \in Rounds
    PROVE  /\ Done \in Rounds
           /\ Done.pc = "next" /\ Done.vol = Nobody /\ Done.items = {}
           /\ Done.targets = {}
           /\ Done.apps = rec.apps /\ Done.pods = rec.pods
           /\ Done.mis = rec.mis /\ Done.todo = rec.todo
BY DEF Done, Rounds, RecLabels

(* The round keeps its shape. *)
LEMMA RoundStep ==
    ASSUME TypeInv, TableInv', [Next]_vars
    PROVE  RoundInv'
<1>1. /\ RoundInv /\ rec \in Rounds /\ Nobody \notin Vols
      /\ rec.todo \subseteq Vols /\ rec.targets \subseteq Apps
      /\ rec.items \subseteq Item
      /\ app \in [Apps -> AppStates] /\ pod \in [Vols -> Pod]
  BY RecoveryAssumption DEF TypeInv, RoundInv, TypeOK, AppStates, Rounds
<1>2. CASE rec' = rec
  BY <1>1, <1>2 DEF RoundInv
<1>3. CASE rec' = IdleRec
  <2>1. IdleRec \in Rounds /\ IdleRec.pc = "idle" /\ IdleRec.vol = Nobody
        /\ IdleRec.todo = {} /\ IdleRec.items = {}
    BY DEF IdleRec, Rounds, RecLabels
  <2>2. QED
    BY <1>3, <2>1 DEF RoundInv
<1>4. CASE rec' = Done /\ rec.pc \notin {"idle", "parse"}
  BY <1>1, <1>4, DoneFacts DEF RoundInv
<1>5. CASE RecList
  <2>1. rec.pc = "idle" /\ rec' = [rec EXCEPT !.pc = "parse", !.apps = app, !.pods = pod]
    BY <1>5 DEF RecList, RecContinue
  <2>2. /\ rec' \in Rounds /\ rec'.pc = "parse" /\ rec'.apps = app
        /\ rec'.pods = pod /\ rec'.vol = rec.vol /\ rec'.todo = rec.todo
        /\ rec'.items = rec.items
    BY <1>1, <2>1 DEF Rounds, RecLabels
  <2>3. QED
    BY <1>1, <2>1, <2>2 DEF RoundInv
<1>6. CASE RecParse
  <2> DEFINE m == [p \in Paths |->
                     [count |-> Len(mounts[p]),
                      inconsistent |-> \E i, j \in DOMAIN mounts[p] :
                         /\ mounts[p][i].st = "local"
                         /\ mounts[p][j].st # "local"]]
             t == {v \in Vols : rec.pods[v].phase # "absent"}
  <2>1. rec.pc = "parse"
        /\ rec' = [rec EXCEPT !.pc = "next", !.todo = t, !.mis = m]
    BY <1>6 DEF RecParse, RecContinue
  <2>2. m \in [Paths -> Found]
    <3>1. \A p \in Paths : Len(mounts[p]) \in Nat
      <4>1. \A p \in Paths : mounts[p] \in Seq(Entry)
        BY DEF TypeInv, TypeOK
      <4>2. QED
        BY <4>1, LenProperties
    <3>2. QED
      BY <3>1 DEF Found
  <2>3. t \subseteq Vols
    OBVIOUS
  <2> HIDE DEF m, t
  <2>4. /\ rec' \in Rounds /\ rec'.pc = "next" /\ rec'.apps = rec.apps
        /\ rec'.pods = rec.pods /\ rec'.vol = rec.vol /\ rec'.todo = t
        /\ rec'.items = rec.items /\ rec'.mis = m
    BY <1>1, <2>1, <2>2, <2>3 DEF Rounds, RecLabels
  <2>5. QED
    BY <1>1, <2>1, <2>2, <2>3, <2>4 DEF RoundInv
<1>7. ASSUME NEW v \in Vols, RecRun(v) PROVE RoundInv'
  <2> DEFINE kept == rec.pods[v].refs \subseteq Alive
             cur == IF kept THEN rec.pods[v]
                    ELSE [pod[v] EXCEPT !.refs = @ \cap Alive]
             r == [rec EXCEPT !.todo = @ \ {v}, !.pods[v] = Absent]
  <2>1. /\ rec.pc = "next" /\ v \in rec.todo
        /\ \/ rec' = r
           \/ rec' = [r EXCEPT !.pc = "deleted", !.vol = v]
           \/ rec' = [r EXCEPT !.pc = "ready", !.vol = v, !.targets = cur.refs]
    BY <1>7 DEF RecRun, RecContinue
  <2>2. rec.pods \in [Vols -> Pod] /\ rec.pods[v] \in Pod
    BY <1>1, <2>1 DEF RoundInv
  <2>3. cur.refs \subseteq Apps
    <3>1. kept => cur.refs = rec.pods[v].refs
      OBVIOUS
    <3>2. ~kept => cur.refs = pod[v].refs \cap Alive
      <4>1. pod[v] \in Pod
        BY <1>1
      <4>2. QED
        BY <4>1 DEF Pod
    <3>3. QED
      BY <2>2, <3>1, <3>2, PodFacts DEF Alive
  <2> HIDE DEF cur, kept
  <2>4. [rec.pods EXCEPT ![v] = Absent] \in [Vols -> Pod]
    BY <2>2, PodFacts
  <2>5. /\ r \in Rounds /\ r.pc = "next" /\ r.todo = rec.todo \ {v}
        /\ r.apps = rec.apps /\ r.pods \in [Vols -> Pod] /\ r.mis = rec.mis
        /\ r.vol = rec.vol /\ r.items = rec.items
    BY <1>1, <2>1, <2>4 DEF Rounds
  <2> HIDE DEF r
  <2>6. /\ rec.vol = Nobody /\ rec.items = {} /\ rec.mis \in [Paths -> Found]
        /\ rec.apps \in [Apps -> AppStates]
    BY <1>1, <2>1 DEF RoundInv
  <2>7. CASE rec' = r
    BY <1>1, <2>5, <2>6, <2>7 DEF RoundInv
  <2>8. CASE rec' = [r EXCEPT !.pc = "deleted", !.vol = v]
    <3>1. /\ rec' \in Rounds /\ rec'.pc = "deleted" /\ rec'.todo = r.todo
          /\ rec'.apps = r.apps /\ rec'.pods = r.pods /\ rec'.mis = r.mis
          /\ rec'.vol = v /\ rec'.items = r.items
      BY <2>5, <2>8 DEF Rounds, RecLabels
    <3>2. QED
      BY <2>5, <2>6, <3>1 DEF RoundInv
  <2>9. CASE rec' = [r EXCEPT !.pc = "ready", !.vol = v, !.targets = cur.refs]
    <3>1. /\ rec' \in Rounds /\ rec'.pc = "ready" /\ rec'.todo = r.todo
          /\ rec'.apps = r.apps /\ rec'.pods = r.pods /\ rec'.mis = r.mis
          /\ rec'.vol = v /\ rec'.items = r.items
      BY <2>3, <2>5, <2>9 DEF Rounds, RecLabels
    <3>2. QED
      BY <2>5, <2>6, <3>1 DEF RoundInv
  <2>10. QED
    BY <2>1, <2>7, <2>8, <2>9
<1>8. ASSUME rec.pc \in {"deleted", "lock", "ready"},
             NEW label \in {"clean", "lock", "wait", "ready", "target"},
             NEW ts \in SUBSET Apps,
             rec' = [rec EXCEPT !.pc = label, !.targets = ts]
      PROVE  RoundInv'
  <2>1. /\ rec' \in Rounds /\ rec'.pc = label /\ rec'.todo = rec.todo
        /\ rec'.apps = rec.apps /\ rec'.pods = rec.pods /\ rec'.mis = rec.mis
        /\ rec'.vol = rec.vol /\ rec'.items = rec.items
    BY <1>1, <1>8 DEF Rounds, RecLabels
  <2>2. QED
    BY <1>1, <1>8, <2>1 DEF RoundInv
<1>9. CASE PodDeletedHandler
  <2>1. rec.pc = "deleted" /\ rec.vol \in Vols
    BY <1>1, <1>9 DEF PodDeletedHandler, RoundInv
  <2>2. pod[rec.vol].refs \in SUBSET Apps
    BY <1>1, <2>1, PodFacts
  <2>3. \/ rec' = Done
        \/ \E label \in {"clean", "lock", "ready"} :
              rec' = [rec EXCEPT !.pc = label, !.targets = pod[rec.vol].refs]
    BY <1>9 DEF PodDeletedHandler, RecContinue
  <2>4. QED
    BY <1>4, <1>8, <2>1, <2>2, <2>3
<1>10. CASE RecLock \/ PodReadyHandler
  <2>1. /\ rec.pc \in {"lock", "ready"}
        /\ \/ rec' = Done
           \/ \E label \in {"wait", "target"} : rec' = [rec EXCEPT !.pc = label]
    BY <1>10 DEF RecLock, PodReadyHandler, RecContinue
  <2>2. \A label \in {"wait", "target"} :
          [rec EXCEPT !.pc = label] = [rec EXCEPT !.pc = label, !.targets = rec.targets]
    BY <1>1 DEF Rounds
  <2>3. QED
    BY <1>1, <1>4, <1>8, <2>1, <2>2
<1>11. CASE RecClean \/ RecRecreate \/ RecRecovered
  BY <1>4, <1>11 DEF RecClean, RecRecreate, RecRecovered, RecContinue
<1>12. ASSUME NEW is \in SUBSET Item, NEW ts \in SUBSET Apps, rec.pc = "target",
              rec' = [rec EXCEPT !.targets = ts, !.items = is]
       PROVE  RoundInv'
  <2>1. /\ rec' \in Rounds /\ rec'.pc = rec.pc /\ rec'.todo = rec.todo
        /\ rec'.apps = rec.apps /\ rec'.pods = rec.pods /\ rec'.mis = rec.mis
        /\ rec'.vol = rec.vol
    BY <1>1, <1>12 DEF Rounds
  <2>2. QED
    BY <1>1, <1>12, <2>1 DEF RoundInv
<1>13. ASSUME NEW a \in Apps, RecResolve(a) PROVE RoundInv'
  <2> DEFINE ps == {Target(a, rec.vol)} \cup SubPathTargets(a, rec.vol)
  <2>1. /\ rec.pc = "target" /\ a \in rec.targets
        /\ rec' = [rec EXCEPT !.targets = @ \ {a}, !.items = Items(a, ps)]
    BY <1>13 DEF RecResolve, RecContinue
  <2>2. rec.mis \in [Paths -> Found]
    BY <1>1, <2>1 DEF RoundInv
  <2>3. Items(a, ps) \subseteq Item
    <3>1. rec.vol \in Vols
      BY <1>1, <2>1 DEF RoundInv
    <3>2. <<a, rec.vol>> \in Uses
      BY <2>1, <3>1 DEF TypeInv, RefInv, Users
    <3>3. T(<<a, rec.vol>>) \in Paths /\ T(<<a, rec.vol>>) = Target(a, rec.vol)
      BY <3>2, PathFacts DEF T
    <3>4. ps \in SUBSET Paths
      BY <3>3 DEF SubPathTargets
    <3>5. QED
      BY <2>2, <3>4, ItemsFacts
  <2>4. QED
    BY <1>1, <1>12, <2>1, <2>3
<1>14. ASSUME NEW it \in rec.items, RecUmount(it) \/ RecBind(it) PROVE RoundInv'
  <2>1. rec.pc = "target" /\ it \in Item
    BY <1>1, <1>14 DEF RecUmount, RecBind, Current
  <2>2. PICK is : rec' = [rec EXCEPT !.items = is] /\ is \subseteq Item
    <3>1. CASE RecBind(it)
      BY <1>1, <3>1 DEF RecBind, RecContinue
    <3>2. CASE RecUmount(it)
      <4>1. [it EXCEPT !.pops = it.pops - 1] \in Item
        <5>1. it.pops \in Nat /\ it.pops > 0
          BY <2>1, <3>2 DEF Item, RecUmount
        <5>2. it.pops - 1 \in Nat
          BY <5>1
        <5>3. QED
          BY <2>1, <5>2 DEF Item
      <4>2. rec' = [rec EXCEPT !.items =
                      (rec.items \ {it}) \cup {[it EXCEPT !.pops = it.pops - 1]}]
        BY <3>2 DEF RecUmount, RecContinue
      <4>3. (rec.items \ {it}) \cup {[it EXCEPT !.pops = it.pops - 1]} \subseteq Item
        BY <1>1, <4>1
      <4>4. QED
        BY <4>2, <4>3, Zenon
    <3>3. QED
      BY <1>14, <3>1, <3>2
  <2>3. rec' = [rec EXCEPT !.targets = rec.targets, !.items = is]
    BY <1>1, <2>2 DEF Rounds
  <2>4. QED
    BY <1>1, <1>12, <2>1, <2>2, <2>3
<1>15. QED
  BY <1>2, <1>3, <1>5, <1>6, <1>7, <1>9, <1>10, <1>11, <1>13, <1>14, RoundShape
  DEF Reconcile, RecEnd, RecContinue

LEMMA PodRefs ==
    ASSUME TypeInv, [Next]_vars, NEW x \in Vols
    PROVE  pod'[x].refs \subseteq Users(x)
<1>1. /\ pod \in [Vols -> Pod] /\ pod[x] \in Pod
      /\ \A v \in Vols : pod[v].refs \subseteq Users(v)
  BY DEF TypeInv, TypeOK, RefInv
<1>2. CASE pod' = pod
  BY <1>1, <1>2
<1>3. \A v : \A p \in Pod : pod' = [pod EXCEPT ![v] = p] =>
          pod'[x] = IF x = v THEN p ELSE pod[x]
  BY <1>1
<1>4. ASSUME NEW v \in Vols, NEW p, p.refs \subseteq Users(v),
             pod' = [pod EXCEPT ![v] = p]
      PROVE  pod'[x].refs \subseteq Users(x)
  BY <1>1, <1>4
<1>5. ASSUME NEW w \in Workers, Call(w) PROVE pod'[x].refs \subseteq Users(x)
  <2> DEFINE v == call[w].vol
             a == call[w].app
  <2>1. v \in Vols /\ a \in Apps /\ a \in Users(v)
    BY <1>5, CallShape, CallPath DEF Users
  <2>2. pod[v] \in Pod /\ pod[v].refs \subseteq Users(v)
    BY <1>1, <2>1
  <2>3. CASE JMount(w)
    <3>1. /\ NewPod({a}).refs = {a}
          /\ [pod[v] EXCEPT !.refs = pod[v].refs \cup {a}].refs = pod[v].refs \cup {a}
      BY <2>2 DEF NewPod, Absent, Pod
    <3>2. \/ pod' = [pod EXCEPT ![v] = NewPod({a})]
          \/ pod' = [pod EXCEPT ![v] = [pod[v] EXCEPT !.refs = pod[v].refs \cup {a}]]
      BY <2>3 DEF JMount
    <3>3. QED
      BY <1>4, <2>1, <2>2, <3>1, <3>2
  <2>4. CASE JUmount(w)
    <3> DEFINE refs == pod[v].refs \ {a}
               ph == IF refs = {} THEN "terminating" ELSE pod[v].phase
               r == [pod[v] EXCEPT !.refs = refs, !.phase = ph]
    <3>1. r.refs = refs
      BY <2>2 DEF Pod
    <3>2. \/ pod' = [pod EXCEPT ![v] = pod[v]]
          \/ pod' = [pod EXCEPT ![v] = r]
      BY <2>4 DEF JUmount
    <3>3. QED
      BY <1>4, <2>1, <2>2, <3>1, <3>2
  <2>5. QED
    BY <1>2, <1>5, <2>3, <2>4
    DEF Call, PublishMkdir, WaitReady, CreateVol, PublishBind, UmountLoop,
        CleanTarget
<1>6. ASSUME NEW v \in Vols, RecRun(v) PROVE pod'[x].refs \subseteq Users(x)
  <2> DEFINE kept == rec.pods[v].refs \subseteq Alive
             q == [pod[v] EXCEPT !.refs = pod[v].refs \cap Alive]
             now == IF kept THEN pod[v] ELSE q
  <2>1. pod[v] \in Pod /\ pod[v].refs \cap Alive \in SUBSET Apps
    BY <1>1, PodFacts DEF Alive
  <2>2. q \in Pod /\ q.refs = pod[v].refs \cap Alive
    BY <2>1, PodFacts DEF Pod
  <2>3. now \in Pod /\ now.refs \subseteq Users(v)
    BY <1>1, <2>1, <2>2
  <2>4. PICK ph : pod' = [pod EXCEPT ![v] = [now EXCEPT !.phase = ph]]
    BY <1>6 DEF RecRun
  <2>5. [now EXCEPT !.phase = ph].refs = now.refs
    BY <2>3 DEF Pod
  <2>6. QED
    BY <1>4, <2>3, <2>4, <2>5
<1>7. CASE PodDeletedHandler
  <2>1. rec.vol \in Vols
    BY <1>7 DEF PodDeletedHandler, TypeInv, RoundInv
  <2>2. [pod[rec.vol] EXCEPT !.fin = FALSE].refs = pod[rec.vol].refs
    BY <1>1, <2>1 DEF Pod
  <2>3. pod' = pod \/ pod' = [pod EXCEPT ![rec.vol] = [pod[rec.vol] EXCEPT !.fin = FALSE]]
    BY <1>7 DEF PodDeletedHandler
  <2>4. QED
    BY <1>1, <1>2, <1>4, <2>1, <2>2, <2>3
<1>8. CASE RecRecreate
  <2> DEFINE v == rec.vol
             q == [pod[v] EXCEPT !.refs = pod[v].refs \cup rec.targets]
  <2>1. v \in Vols /\ rec.targets \subseteq Users(v)
    BY <1>8 DEF RecRecreate, TypeInv, RoundInv, RefInv
  <2>2. q.refs = pod[v].refs \cup rec.targets /\ NewPod(rec.targets).refs = rec.targets
    BY <1>1, <2>1 DEF Pod, NewPod, Absent
  <2>3. \/ pod' = [pod EXCEPT ![v] = NewPod(rec.targets)]
        \/ pod' = [pod EXCEPT ![v] = q]
        \/ pod' = [pod EXCEPT ![v] = pod[v]]
    <3>1. CASE pod[v].phase = "absent"
      BY <1>8, <3>1 DEF RecRecreate
    <3>2. CASE pod[v].phase = "live"
      BY <1>8, <3>2 DEF RecRecreate
    <3>3. CASE pod[v].phase # "absent" /\ pod[v].phase # "live"
      BY <1>8, <3>3, Zenon DEF RecRecreate
    <3>4. QED
      BY <3>1, <3>2, <3>3
  <2>4. QED
    BY <1>1, <1>4, <2>1, <2>2, <2>3
<1>9. ASSUME NEW v \in Vols, pod' # pod,
             Container(v) \/ Probe(v) \/ LateClean(v)
             \/ ClientCrash(v) \/ UserDelete(v) \/ RemoveDir(v)
      PROVE  pod'[x].refs \subseteq Users(x)
  <2>1. pod[v] \in Pod
    BY <1>1
  <2>2. /\ [pod[v] EXCEPT !.up = TRUE].refs = pod[v].refs
        /\ [pod[v] EXCEPT !.ready = (src[v] = "live")].refs = pod[v].refs
        /\ [pod[v] EXCEPT !.phase = "terminating"].refs = pod[v].refs
        /\ [pod[v] EXCEPT !.up = FALSE, !.ready = FALSE].refs = pod[v].refs
        /\ Absent.refs = {}
    BY <2>1 DEF Pod, Absent
  <2>3. \/ pod' = [pod EXCEPT ![v] = [pod[v] EXCEPT !.up = TRUE]]
        \/ pod' = [pod EXCEPT ![v] = [pod[v] EXCEPT !.ready = (src[v] = "live")]]
        \/ pod' = [pod EXCEPT ![v] = [pod[v] EXCEPT !.phase = "terminating"]]
        \/ pod' = [pod EXCEPT ![v].up = FALSE, ![v].ready = FALSE]
        \/ pod' = [pod EXCEPT ![v] = Absent]
    BY <1>9 DEF Container, ClientUp, PreStop, ClientStops, PodGone, Probe,
                LateClean, ClientCrash, UserDelete, RemoveDir
  <2>4. CASE pod' = [pod EXCEPT ![v].up = FALSE, ![v].ready = FALSE]
    <3>1. pod' = [pod EXCEPT ![v] = [pod[v] EXCEPT !.up = FALSE, !.ready = FALSE]]
      BY <1>1, <2>4
    <3>2. QED
      BY <1>1, <1>4, <2>2, <3>1
  <2>5. QED
    BY <1>1, <1>4, <2>2, <2>3, <2>4
<1>10. QED
  BY <1>2, <1>5, <1>6, <1>7, <1>8, <1>9
  DEF Next, Fault, vars, Kubelet, AppCreate, AppRun, AppGone, AppDelete,
      AppStep, SubPathBind, SubPathClean, AskPublish, AskUnpublish, Ask,
      CallTimeout, PluginCrash, Reconcile, RecList, RecParse, RecEnd, RecClean,
      RecLock, PodReadyHandler, RecRecovered, RecResolve, RecUmount, RecBind

LEMMA RefStep ==
    ASSUME TypeInv, RoundInv', [Next]_vars
    PROVE  RefInv'
<1>1. \A v \in Vols : pod'[v].refs \subseteq Users(v)
  BY PodRefs
<1>2. /\ RoundInv /\ RefInv /\ rec \in Rounds /\ Nobody \notin Vols
      /\ pod \in [Vols -> Pod]
  BY RecoveryAssumption DEF TypeInv, RoundInv, TypeOK
<1> DEFINE Pods(r) == r.pc # "idle" => \A v \in Vols : r.pods[v].refs \subseteq Users(v)
           Targets(r) == IF r.vol \in Vols THEN r.targets \subseteq Users(r.vol)
                                           ELSE r.targets = {}
<1>3. SUFFICES Pods(rec') /\ Targets(rec')
  BY <1>1 DEF RefInv, Users
<1>4. Pods(rec) /\ Targets(rec)
  BY <1>2 DEF RefInv
<1>5. CASE rec' = rec
  BY <1>4, <1>5
<1>6. CASE rec' = IdleRec
  BY <1>2, <1>6 DEF IdleRec
<1>7. CASE rec' = Done /\ rec.pc # "idle"
  BY <1>2, <1>4, <1>7, DoneFacts
<1>8. CASE RecList
  <2>1. rec' = [rec EXCEPT !.pc = "parse", !.apps = app, !.pods = pod]
    BY <1>8 DEF RecList, RecContinue
  <2>2. rec'.pods = pod /\ rec'.vol = rec.vol /\ rec'.targets = rec.targets
    BY <1>2, <2>1 DEF Rounds
  <2>3. QED
    BY <1>2, <1>4, <2>2 DEF RefInv
<1>9. CASE RecParse
  <2>1. /\ rec.pc = "parse"
        /\ \E t, m : rec' = [rec EXCEPT !.pc = "next", !.todo = t, !.mis = m]
    BY <1>9 DEF RecParse, RecContinue
  <2>2. rec'.pods = rec.pods /\ rec'.vol = rec.vol /\ rec'.targets = rec.targets
    BY <1>2, <2>1 DEF Rounds
  <2>3. QED
    BY <1>4, <2>1, <2>2
<1>10. ASSUME NEW v \in Vols, RecRun(v) PROVE Pods(rec') /\ Targets(rec')
  <2> DEFINE kept == rec.pods[v].refs \subseteq Alive
             cur == IF kept THEN rec.pods[v]
                    ELSE [pod[v] EXCEPT !.refs = @ \cap Alive]
             r == [rec EXCEPT !.todo = @ \ {v}, !.pods[v] = Absent]
  <2>1. /\ rec.pc = "next" /\ v \in rec.todo
        /\ \/ rec' = r
           \/ rec' = [r EXCEPT !.pc = "deleted", !.vol = v]
           \/ rec' = [r EXCEPT !.pc = "ready", !.vol = v, !.targets = cur.refs]
    BY <1>10 DEF RecRun, RecContinue
  <2>2. /\ rec.pods \in [Vols -> Pod] /\ rec.targets = {} /\ rec.vol = Nobody
        /\ rec.pods[v].refs \subseteq Users(v)
    BY <1>2, <1>4, <2>1 DEF RoundInv
  <2>3. cur.refs \subseteq Users(v)
    <3>1. ~kept => cur.refs = pod[v].refs \cap Alive
      <4>1. pod[v] \in Pod
        BY <1>2
      <4>2. QED
        BY <4>1 DEF Pod
    <3>2. QED
      BY <1>2, <2>2, <3>1 DEF RefInv
  <2> HIDE DEF cur, kept
  <2>4. /\ r.pods = [rec.pods EXCEPT ![v] = Absent] /\ r.targets = {}
        /\ r.vol = Nobody /\ DOMAIN r = DOMAIN rec
    BY <1>2, <2>2 DEF Rounds
  <2>5. \A y \in Vols : r.pods[y].refs \subseteq Users(y)
    <3>1. Absent.refs = {}
      BY DEF Absent
    <3>2. QED
      BY <1>4, <2>1, <2>2, <2>4, <3>1
  <2>6. r \in [{"pc", "apps", "pods", "mis", "todo", "vol", "targets", "items"} -> {r[f] : f \in DOMAIN r}]
    BY <1>2 DEF Rounds
  <2> HIDE DEF r
  <2>7. /\ rec'.pods = r.pods
        /\ \/ rec'.vol = v /\ rec'.targets \in {{}, cur.refs}
           \/ rec'.vol = Nobody /\ rec'.targets = {}
    BY <2>1, <2>4, <2>6
  <2>8. QED
    BY <1>2, <2>3, <2>5, <2>7
<1>11. ASSUME rec.pc # "idle", rec.vol \in Vols, NEW ts \in SUBSET Users(rec.vol),
              NEW label, rec' = [rec EXCEPT !.pc = label, !.targets = ts]
       PROVE  Pods(rec') /\ Targets(rec')
  <2>1. rec'.pods = rec.pods /\ rec'.vol = rec.vol /\ rec'.targets = ts
    BY <1>2, <1>11 DEF Rounds
  <2>2. QED
    BY <1>4, <1>11, <2>1
<1>12. CASE PodDeletedHandler
  <2>1. rec.pc = "deleted" /\ rec.vol \in Vols
    BY <1>2, <1>12 DEF PodDeletedHandler, RoundInv
  <2>2. pod[rec.vol].refs \in SUBSET Users(rec.vol)
    BY <1>2, <2>1 DEF RefInv
  <2>3. \/ rec' = Done
        \/ \E label :
              rec' = [rec EXCEPT !.pc = label, !.targets = pod[rec.vol].refs]
    BY <1>12 DEF PodDeletedHandler, RecContinue
  <2>4. QED
    BY <1>7, <1>11, <2>1, <2>2, <2>3
<1>13. CASE RecLock \/ PodReadyHandler
  <2>1. /\ rec.pc \in {"lock", "ready"}
        /\ rec' = Done \/ \E label : rec' = [rec EXCEPT !.pc = label]
    BY <1>13 DEF RecLock, PodReadyHandler, RecContinue
  <2>2. \A label : [rec EXCEPT !.pc = label] =
           [rec EXCEPT !.pc = label, !.targets = rec.targets]
    BY <1>2 DEF Rounds
  <2>3. rec.vol \in Vols
    BY <1>2, <2>1 DEF RoundInv
  <2>4. QED
    BY <1>4, <1>7, <1>11, <2>1, <2>2, <2>3
<1>14. CASE RecClean \/ RecRecreate \/ RecRecovered
  BY <1>7, <1>14 DEF RecClean, RecRecreate, RecRecovered, RecContinue
<1>15. CASE (\E a \in Apps : RecResolve(a))
            \/ \E it \in rec.items : RecUmount(it) \/ RecBind(it)
  <2>1. /\ rec.pc = "target"
        /\ \/ \E a, is : rec' = [rec EXCEPT !.targets = rec.targets \ {a}, !.items = is]
           \/ \E is : rec' = [rec EXCEPT !.items = is]
    <3>1. CASE \E a \in Apps : RecResolve(a)
      BY <3>1 DEF RecResolve, RecContinue
    <3>2. CASE \E it \in rec.items : RecUmount(it)
      BY <3>2 DEF RecUmount, RecContinue, Current
    <3>3. CASE \E it \in rec.items : RecBind(it)
      BY <3>3 DEF RecBind, RecContinue, Current
    <3>4. QED
      BY <1>15, <3>1, <3>2, <3>3
  <2>2. /\ rec'.pods = rec.pods /\ rec'.vol = rec.vol
        /\ rec'.targets \subseteq rec.targets
    BY <1>2, <2>1 DEF Rounds
  <2>3. rec.vol \in Vols
    BY <1>2, <2>1 DEF RoundInv
  <2>4. QED
    BY <1>4, <2>1, <2>2, <2>3
<1>16. QED
  BY <1>5, <1>6, <1>8, <1>9, <1>10, <1>12, <1>13, <1>14, <1>15, RoundShape
  DEF Reconcile, RecEnd, RecContinue

(* TypeOK is preserved, with what it rests on. *)
LEMMA TypeStep ==
    ASSUME TypeInv, TableInv', [Next]_vars
    PROVE  TypeInv'
<1>1. CallType' /\ RoundInv' /\ RefInv' /\ pod' \in [Vols -> Pod]
  BY CallTypeStep, RoundStep, RefStep, PodType
<1>2. hanging' \subseteq Vols /\ faults' \in 0..MaxFaults
  BY FaultType
<1>3. rec'.items \subseteq Item
  BY <1>1 DEF RoundInv, Rounds
<1>4. TypeOK'
  BY <1>1, <1>2, <1>3 DEF TypeOK, TableInv, CallType, SrcStates, AppStates, Answers
<1>5. QED
  BY <1>1, <1>4 DEF TypeInv, CallType

-----------------------------------------------------------------------------
(* The invariant *)

(* A pod that is being deleted stays that way. *)
LEMMA AppStays ==
    ASSUME TypeInv, [Next]_vars, NEW a \in Apps, app[a] \in Leaving
    PROVE  app'[a] \in Leaving
<1>1. app \in [Apps -> AppStates]
  BY DEF TypeInv, TypeOK, AppStates
<1>2. CASE app' = app
  BY <1>2
<1>3. CASE \E b \in Apps :
              AppCreate(b) \/ AppRun(b) \/ AppGone(b) \/ AppDelete(b)
  BY <1>1, <1>3
  DEF AppCreate, AppRun, AppGone, AppDelete, AppStep, Leaving
<1>4. CASE \E w \in Workers : Call(w)
  BY <1>2, <1>4, CallShape
<1>5. QED
  BY <1>2, <1>3, <1>4
  DEF Next, Fault, vars, Kubelet, AskPublish, AskUnpublish, Ask, SubPathBind,
      SubPathClean, Others, Container, ClientUp, PreStop, ClientStops, PodGone,
      Probe, LateClean, ClientCrash, UserDelete, RemoveDir, CallTimeout,
      PluginCrash, Reconcile, RecContinue, RecList, RecParse, RecEnd, RecRun,
      PodDeletedHandler, RecClean, RecLock, RecRecreate, PodReadyHandler,
      RecRecovered, RecResolve, RecUmount, RecBind

(* On a target that was cleaned for a pod that is deleted nothing appears. *)
LEMMA StaysStep ==
    ASSUME TypeInv, EntryInv, CallInv, [Next]_vars, NEW u \in Uses
    PROVE  Stays(u)
<1>1. CASE TableKept
  BY <1>1 DEF TableKept
<1>2. ASSUME NEW it \in rec.items, RecUmount(it) PROVE Stays(u)
  <2>1. it.path \in Paths /\ TableInv /\ T(u) \in Paths
    BY PathFacts DEF TypeInv, TypeOK, Item, TableInv, SrcStates
  <2>2. /\ dirs' = dirs
        /\ mounts[it.path] = <<>> => mounts'[it.path] = <<>>
        /\ \A q \in Paths : q # it.path => mounts'[q] = mounts[q]
    BY <1>2, <2>1, UmountKeeps DEF RecUmount
  <2>3. QED
    BY <2>1, <2>2 DEF Stays, Unbound
<1>3. QED
  BY <1>1, <1>2, TableStep

(* A step that is not a call's own changes a call only by making one, or   *)
(* by ending them all.                                                     *)
LEMMA OtherCalls ==
    ASSUME TypeInv, [Next]_vars
    PROVE  \/ \E w \in Workers : Call(w)
           \/ \E w \in Workers, u \in Uses : AskPublish(w, u) \/ AskUnpublish(w, u)
           \/ /\ vstate' = vstate
              /\ \/ PluginCrash
                 \/ \E u \in Uses : CallTimeout(u)
                 \/ \E a \in Apps : AppCreate(a) \/ AppRun(a) \/ AppGone(a) \/ AppDelete(a)
                 \/ UNCHANGED <<app, asked, call>>
BY DEF Next, Fault, vars, Kubelet, UsesOf, AppCreate, AppRun, AppGone, AppDelete,
       AppStep, SubPathBind,
       SubPathClean, Others, Container, ClientUp, PreStop, ClientStops, PodGone,
       Probe, LateClean, ClientCrash, UserDelete, RemoveDir, CallTimeout,
       PluginCrash, Reconcile, RecContinue, RecList, RecParse, RecEnd, RecRun,
       PodDeletedHandler, RecClean, RecLock, RecRecreate, PodReadyHandler,
       RecRecovered, RecResolve, RecUmount, RecBind

(* How a call changes, one worker at a time. *)
LEMMA CallFields ==
    ASSUME TypeInv, NEW w \in Workers, Call(w), NEW x \in Workers
    PROVE  /\ x # w => call'[x] = call[x]
           /\ \/ call'[w] = IdleCall
              \/ /\ call'[w].pc \in CallLabels \ {"p_mkdir"}
                 /\ call'[w].app = call[w].app /\ call'[w].vol = call[w].vol
                 /\ call'[w].pc \in {"u_loop", "u_clean", "u_ref"} =>
                       call[w].pc \in {"u_loop", "u_clean"}
                 /\ call'[w].pc = "u_ref" =>
                       CleanupMountPoint(PathOf(w)) /\ ~CleanupFails(PathOf(w))
<1>1. call \in [Workers -> Calls]
  BY DEF TypeInv
<1>2. CASE \E answer : Return(w, answer)
  BY <1>1, <1>2 DEF Return
<1>3. ASSUME NEW label \in CallLabels \ {"p_mkdir"}, Goto(w, label),
             label \in {"u_loop", "u_clean", "u_ref"} =>
                call[w].pc \in {"u_loop", "u_clean"},
             label = "u_ref" =>
                CleanupMountPoint(PathOf(w)) /\ ~CleanupFails(PathOf(w))
      PROVE  /\ x # w => call'[x] = call[x]
             /\ call'[w].pc = label
             /\ call'[w].app = call[w].app /\ call'[w].vol = call[w].vol
  BY <1>1, <1>3 DEF Goto, Calls
<1>4. QED
  BY <1>2, <1>3, CallShape

LEMMA CallInvStep ==
    ASSUME TypeInv, CallInv, [Next]_vars, NEW x \in Workers
    PROVE  LET c == call'[x] IN
           /\ c.pc = "p_mkdir" =>
                 asked'[<<c.app, c.vol>>] = x /\ app'[c.app] \notin Leaving
           /\ c.pc \in {"u_loop", "u_clean", "u_ref"} => app'[c.app] \in Leaving
<1> DEFINE Good(c) == 
               /\ c.pc = "p_mkdir" =>
                     asked'[<<c.app, c.vol>>] = x /\ app'[c.app] \notin Leaving
               /\ c.pc \in {"u_loop", "u_clean", "u_ref"} => app'[c.app] \in Leaving
           u == <<call[x].app, call[x].vol>>
<1>1. /\ call \in [Workers -> Calls] /\ Nobody \notin Workers
      /\ asked \in [Uses -> Workers \cup {Nobody}] /\ app \in [Apps -> AppStates]
  BY RecoveryAssumption DEF TypeInv, TypeOK, AppStates
<1>2. /\ call[x].pc = "p_mkdir" => asked[u] = x /\ app[call[x].app] \notin Leaving
      /\ call[x].pc \in {"u_loop", "u_clean", "u_ref"} => app[call[x].app] \in Leaving
  BY DEF CallInv
<1>3. call[x].pc # "idle" => u \in Uses /\ call[x].app \in Apps
  BY CallPath
<1>4. IdleCall.pc = "idle"
  BY DEF IdleCall
<1>5. ASSUME NEW w \in Workers, Call(w) PROVE Good(call'[x])
  <2>1. app' = app
    BY <1>5, CallShape
  <2>2. CASE x = w
    BY <1>2, <1>4, <1>5, <2>1, <2>2, CallFields
  <2>3. CASE x # w
    <3>1. call'[x] = call[x]
      BY <1>5, <2>3, CallFields
    <3>2. asked'[u] = asked[u] \/ asked[u] = w \/ u \notin Uses
      <4>1. asked' = asked \/ \E answer : Return(w, answer)
        BY <1>5, CallShape
      <4>2. QED
        BY <1>1, <4>1 DEF Return
    <3>3. QED
      BY <1>2, <1>3, <2>1, <2>3, <3>1, <3>2
  <2>4. QED
    BY <2>2, <2>3
<1>6. ASSUME NEW w \in Workers, NEW y \in Uses, AskPublish(w, y) \/ AskUnpublish(w, y)
      PROVE  Good(call'[x])
  <2>1. PICK label :
          /\ Ask(w, y, label)
          /\ \/ label = "p_mkdir" /\ app[y[1]] = "starting"
             \/ label = "u_loop" /\ app[y[1]] = "deleting"
    <3>1. CASE AskPublish(w, y)
      BY <3>1 DEF AskPublish
    <3>2. CASE AskUnpublish(w, y)
      BY <3>2 DEF AskUnpublish
    <3>3. QED
      BY <1>6, <3>1, <3>2
  <2> DEFINE c == [pc |-> label, app |-> y[1], vol |-> y[2]]
  <2>2. /\ asked[y] = Nobody /\ asked' = [asked EXCEPT ![y] = w] /\ app' = app
        /\ call' = [call EXCEPT ![w] = c]
    BY <2>1 DEF Ask
  <2>3. c.pc = label /\ c.app = y[1] /\ c.vol = y[2] /\ y = <<y[1], y[2]>>
    BY PathFacts
  <2> HIDE DEF c
  <2>4. CASE x = w
    <3>1. call'[x] = c
      BY <1>1, <2>2, <2>4
    <3>2. asked'[y] = x
      BY <1>1, <2>2, <2>4
    <3>3. QED
      BY <2>1, <2>2, <2>3, <3>1, <3>2 DEF Leaving
  <2>5. CASE x # w
    <3>1. call'[x] = call[x]
      BY <1>1, <2>2, <2>5
    <3>2. call[x].pc = "p_mkdir" => u # y
      BY <1>1, <1>2, <2>2
    <3>3. QED
      BY <1>1, <1>2, <1>3, <2>2, <3>1, <3>2
  <2>6. QED
    BY <2>4, <2>5
<1>7. CASE PluginCrash
  BY <1>4, <1>7 DEF PluginCrash
<1>8. ASSUME NEW y \in Uses, CallTimeout(y) PROVE Good(call'[x])
  <2>1. /\ call' = call /\ app' = app /\ asked' = [asked EXCEPT ![y] = Nobody]
        /\ call[asked[y]].pc # "p_mkdir"
    BY <1>8 DEF CallTimeout
  <2>2. QED
    BY <1>1, <1>2, <1>3, <2>1
<1>9. ASSUME NEW a \in Apps, AppCreate(a) \/ AppRun(a) \/ AppGone(a) \/ AppDelete(a)
      PROVE  Good(call'[x])
  <2>1. call' = call /\ asked' = asked
    BY <1>9 DEF AppCreate, AppRun, AppGone, AppDelete, AppStep
  <2>2. call[x].pc \in {"u_loop", "u_clean", "u_ref"} => app'[call[x].app] \in Leaving
    BY <1>2, <1>3, AppStays
  <2>3. call[x].pc = "p_mkdir" => app'[call[x].app] \notin Leaving
    <3>1. CASE AppCreate(a) \/ AppRun(a) \/ AppGone(a)
      <4>1. \/ app' = [app EXCEPT ![a] = "starting"]
            \/ app' = [app EXCEPT ![a] = "running"]
            \/ app[a] = "deleting" /\ app' = [app EXCEPT ![a] = "gone"]
        BY <3>1 DEF AppCreate, AppRun, AppGone, AppStep
      <4>2. QED
        BY <1>1, <1>2, <1>3, <4>1 DEF Leaving
    <3>2. CASE AppDelete(a)
      <4>1. /\ \A z \in Uses : z[1] = a => asked[z] = Nobody
            /\ app' = [app EXCEPT ![a] = "deleting"]
        BY <3>2 DEF AppDelete, AppStep, UsesOf
      <4>2. call[x].pc = "p_mkdir" => call[x].app # a
        <5>1. u[1] = call[x].app
          OBVIOUS
        <5>2. QED
          BY <1>1, <1>2, <1>3, <4>1, <5>1
      <4>3. QED
        BY <1>1, <1>2, <1>3, <4>1, <4>2
    <3>3. QED
      BY <1>9, <3>1, <3>2
  <2>4. QED
    BY <1>2, <2>1, <2>2, <2>3
<1>10. CASE UNCHANGED <<app, asked, call>>
  BY <1>2, <1>10
<1>11. QED
  BY <1>5, <1>6, <1>7, <1>8, <1>9, <1>10, OtherCalls

LEMMA UnboundStep ==
    ASSUME TypeInv, EntryInv, CallInv, UnboundInv, [Next]_vars
    PROVE  UnboundInv'
<1> DEFINE Empty(u) == mounts'[T(u)] = <<>> /\ T(u) \notin dirs'
<1>1. \A u \in Uses : app[u[1]] \in Leaving /\ Unbound(u) => Empty(u)
  BY StaysStep DEF Stays
<1>2. \A a \in Apps : app[a] \in Leaving => app'[a] \in Leaving
  BY AppStays
<1>3. /\ call \in [Workers -> Calls] /\ vstate \in [Uses -> Answers]
  BY DEF TypeInv, TypeOK, Answers
<1>4. IdleCall.pc = "idle"
  BY DEF IdleCall
<1>5. ASSUME NEW x \in Workers, call[x].pc = "u_ref"
      PROVE  LET u == <<call[x].app, call[x].vol>>
             IN  u \in Uses /\ u[1] \in Apps /\ app[u[1]] \in Leaving /\ Unbound(u)
  BY <1>5, CallPath DEF CallInv, UnboundInv
<1>6. ASSUME NEW x \in Workers, call'[x].pc = "u_ref"
      PROVE  Empty(<<call'[x].app, call'[x].vol>>)
  <2>1. CASE call'[x] = call[x]
    BY <1>1, <1>5, <1>6, <2>1
  <2>2. ASSUME NEW w \in Workers, Call(w) PROVE Empty(<<call'[x].app, call'[x].vol>>)
    <3>1. CASE x # w
      BY <2>1, <2>2, <3>1, CallFields
    <3>2. CASE x = w
      <4>1. /\ call'[x].app = call[x].app /\ call'[x].vol = call[x].vol
            /\ CleanupMountPoint(PathOf(x)) /\ ~CleanupFails(PathOf(x))
        BY <1>4, <1>6, <2>2, <3>2, CallFields
      <4>2. call[x].pc # "idle"
        BY <2>2, <3>2, CallShape
      <4>3. TableInv
        BY DEF TableInv, TypeInv, TypeOK, SrcStates
      <4>4. /\ PathOf(x) = T(<<call[x].app, call[x].vol>>)
            /\ PathOf(x) \in Paths /\ PathOf(x).kind = "target"
        BY <4>2, CallPath
      <4>5. mounts'[PathOf(x)] = <<>> /\ PathOf(x) \notin dirs'
        BY <4>1, <4>3, <4>4, CleanupKeeps
      <4>6. QED
        BY <4>1, <4>4, <4>5
    <3>3. QED
      BY <3>1, <3>2
  <2>3. ASSUME NEW w \in Workers, NEW y \in Uses, AskPublish(w, y) \/ AskUnpublish(w, y)
        PROVE  call'[x] = call[x]
    <3>1. PICK label \in {"p_mkdir", "u_loop"} : Ask(w, y, label)
      BY <2>3 DEF AskPublish, AskUnpublish
    <3>2. call' = [call EXCEPT ![w] = [pc |-> label, app |-> y[1], vol |-> y[2]]]
      BY <3>1 DEF Ask
    <3>3. [pc |-> label, app |-> y[1], vol |-> y[2]].pc # "u_ref"
      BY <3>1
    <3>4. x # w
      BY <1>3, <1>6, <3>2, <3>3
    <3>5. QED
      BY <1>3, <3>2, <3>4
  <2>4. CASE PluginCrash
    BY <1>4, <1>6, <2>4 DEF PluginCrash
  <2>5. QED
    BY <2>1, <2>2, <2>3, <2>4, OtherCalls
    DEF CallTimeout, AppCreate, AppRun, AppGone, AppDelete, AppStep
<1>7. ASSUME NEW u \in Uses, vstate'[u] = "unpublished"
      PROVE  Empty(u) /\ app'[u[1]] \in Leaving
  <2>1. u[1] \in Apps
    BY PathFacts
  <2>2. CASE vstate[u] = "unpublished"
    BY <1>1, <1>2, <2>1, <2>2 DEF UnboundInv
  <2>3. CASE vstate[u] # "unpublished"
    <3>1. ASSUME NEW w \in Workers, Call(w) PROVE app[u[1]] \in Leaving /\ Unbound(u)
      <4>1. PICK answer : /\ Return(w, answer)
                          /\ answer = "unpublished" =>
                                call[w].pc = "u_ref" /\ UNCHANGED tableVars
        <5>1. vstate' # vstate
          BY <1>7, <2>3
        <5>2. QED
          BY <3>1, <5>1, CallShape
      <4>2. u = <<call[w].app, call[w].vol>> /\ answer = "unpublished"
        BY <1>3, <1>7, <2>3, <4>1 DEF Return
      <4>3. QED
        BY <1>5, <4>1, <4>2
    <3>2. ASSUME NEW w \in Workers, NEW y \in Uses, AskPublish(w, y) \/ AskUnpublish(w, y)
          PROVE  FALSE
      BY <1>3, <1>7, <2>3, <3>2 DEF AskPublish, AskUnpublish
    <3>3. app[u[1]] \in Leaving /\ Unbound(u)
      BY <1>7, <2>3, <3>1, <3>2, OtherCalls
    <3>4. QED
      BY <1>1, <1>2, <2>1, <3>3
  <2>4. QED
    BY <2>2, <2>3
<1>8. QED
  BY <1>6, <1>7 DEF UnboundInv, Unbound, T, Target

(* The round counts the mounts of every path. *)
LEMMA ParseFields ==
    ASSUME TypeInv, RecParse
    PROVE  /\ rec.pc = "parse" /\ rec'.apps = rec.apps
           /\ \A p \in Paths : rec'.mis[p].count = Len(mounts[p])
           /\ rec'.items = {} /\ UNCHANGED tableVars
<1> DEFINE m == [p \in Paths |->
                   [count |-> Len(mounts[p]),
                    inconsistent |-> \E i, j \in DOMAIN mounts[p] :
                       /\ mounts[p][i].st = "local"
                       /\ mounts[p][j].st # "local"]]
<1>1. rec \in Rounds /\ RoundInv
  BY DEF TypeInv, RoundInv
<1>2. /\ rec.pc = "parse" /\ UNCHANGED tableVars
      /\ \E t : rec' = [rec EXCEPT !.pc = "next", !.todo = t, !.mis = m]
  BY DEF RecParse, RecContinue
<1>3. \A p \in Paths : m[p].count = Len(mounts[p])
  OBVIOUS
<1> HIDE DEF m
<1>4. rec'.apps = rec.apps /\ rec'.mis = m /\ rec'.items = rec.items
  BY <1>1, <1>2 DEF Rounds
<1>5. QED
  BY <1>1, <1>2, <1>3, <1>4 DEF RoundInv

(* What a step of the reconciler does to its round, but for the work on    *)
(* one target.                                                             *)
LEMMA RoundFields ==
    ASSUME TypeInv, Reconcile
    PROVE  \/ RecList /\ rec'.pc = "parse" /\ rec'.apps = app /\ rec'.items = {}
           \/ rec' = IdleRec
           \/ /\ RecParse /\ rec.pc = "parse" /\ rec'.apps = rec.apps
              /\ \A p \in Paths : rec'.mis[p].count = Len(mounts[p])
              /\ rec'.items = {} /\ UNCHANGED tableVars
           \/ /\ rec.pc \notin {"idle", "parse"}
              /\ rec'.apps = rec.apps /\ rec'.mis = rec.mis /\ rec'.items = {}
              /\ \/ \E v \in rec.todo : /\ rec'.todo = rec.todo \ {v}
                                        /\ rec'.vol \in {v, Nobody}
                 \/ rec'.todo = rec.todo /\ rec'.vol = Nobody
                 \/ /\ rec'.todo = rec.todo /\ rec'.vol = rec.vol
                    /\ rec.pc # "target"
           \/ \E a \in Apps : RecResolve(a)
           \/ \E it \in rec.items : RecUmount(it) \/ RecBind(it)
<1>1. rec \in Rounds /\ RoundInv
  BY DEF TypeInv, RoundInv
<1>2. CASE RecList
  <2>1. rec.pc = "idle" /\ rec' = [rec EXCEPT !.pc = "parse", !.apps = app, !.pods = pod]
    BY <1>2 DEF RecList, RecContinue
  <2>2. rec'.pc = "parse" /\ rec'.apps = app /\ rec'.items = rec.items
    BY <1>1, <2>1 DEF Rounds
  <2>3. QED
    BY <1>1, <1>2, <2>1, <2>2 DEF RoundInv
<1>3. CASE RecParse
  BY <1>3, ParseFields
<1>4. CASE RecEnd
  BY <1>4 DEF RecEnd, RecContinue
<1>5. CASE rec' = Done /\ rec.pc \notin {"idle", "parse"}
  BY <1>1, <1>5, DoneFacts
<1>6. ASSUME NEW v \in Vols, RecRun(v)
      PROVE  /\ rec.pc = "next" /\ v \in rec.todo
             /\ rec'.apps = rec.apps /\ rec'.mis = rec.mis /\ rec'.items = {}
             /\ rec'.todo = rec.todo \ {v} /\ rec'.vol \in {v, Nobody}
  <2> DEFINE r == [rec EXCEPT !.todo = @ \ {v}, !.pods[v] = Absent]
  <2>1. /\ rec.pc = "next" /\ v \in rec.todo
        /\ \/ rec' = r
           \/ rec' = [r EXCEPT !.pc = "deleted", !.vol = v]
           \/ \E ts : rec' = [r EXCEPT !.pc = "ready", !.vol = v, !.targets = ts]
    BY <1>6 DEF RecRun, RecContinue
  <2>2. rec.items = {} /\ rec.vol = Nobody
    BY <1>1, <2>1 DEF RoundInv
  <2>3. /\ r.todo = rec.todo \ {v} /\ r.apps = rec.apps /\ r.mis = rec.mis
        /\ r.vol = Nobody /\ r.items = {} /\ DOMAIN r = DOMAIN rec
    BY <1>1, <2>2 DEF Rounds
  <2>4. r \in [{"pc", "apps", "pods", "mis", "todo", "vol", "targets", "items"}
                 -> {r[f] : f \in DOMAIN r}]
    BY <1>1 DEF Rounds
  <2> HIDE DEF r
  <2>5. /\ rec'.todo = r.todo /\ rec'.apps = r.apps /\ rec'.mis = r.mis
        /\ rec'.items = r.items /\ rec'.vol \in {v, Nobody}
    BY <2>1, <2>3, <2>4
  <2>6. QED
    BY <2>1, <2>3, <2>5
<1>7. ASSUME rec.pc \in {"deleted", "lock", "ready"},
             \/ \E label, ts : rec' = [rec EXCEPT !.pc = label, !.targets = ts]
             \/ \E label : rec' = [rec EXCEPT !.pc = label]
      PROVE  /\ rec'.apps = rec.apps /\ rec'.mis = rec.mis /\ rec'.items = {}
             /\ rec'.todo = rec.todo /\ rec'.vol = rec.vol
  <2>1. /\ rec'.apps = rec.apps /\ rec'.mis = rec.mis /\ rec'.items = rec.items
        /\ rec'.todo = rec.todo /\ rec'.vol = rec.vol
    BY <1>1, <1>7 DEF Rounds
  <2>2. QED
    BY <1>1, <1>7, <2>1 DEF RoundInv
<1>8. CASE PodDeletedHandler
  <2>1. /\ rec.pc = "deleted"
        /\ \/ rec' = Done
           \/ \E label, ts : rec' = [rec EXCEPT !.pc = label, !.targets = ts]
    BY <1>8 DEF PodDeletedHandler, RecContinue
  <2>2. CASE rec' = Done
    BY <1>5, <2>1, <2>2
  <2>3. CASE \E label, ts : rec' = [rec EXCEPT !.pc = label, !.targets = ts]
    <3>1. /\ rec'.apps = rec.apps /\ rec'.mis = rec.mis /\ rec'.items = {}
          /\ rec'.todo = rec.todo /\ rec'.vol = rec.vol
      BY <1>7, <2>1, <2>3, Zenon
    <3>2. QED
      BY <2>1, <3>1
  <2>4. QED
    BY <2>1, <2>2, <2>3
<1>9. CASE RecLock \/ PodReadyHandler
  <2>1. /\ rec.pc \in {"lock", "ready"}
        /\ rec' = Done \/ \E label : rec' = [rec EXCEPT !.pc = label]
    BY <1>9 DEF RecLock, PodReadyHandler, RecContinue
  <2>2. CASE rec' = Done
    BY <1>5, <2>1, <2>2
  <2>3. CASE \E label : rec' = [rec EXCEPT !.pc = label]
    <3>1. /\ rec'.apps = rec.apps /\ rec'.mis = rec.mis /\ rec'.items = {}
          /\ rec'.todo = rec.todo /\ rec'.vol = rec.vol
      BY <1>7, <2>1, <2>3, Zenon
    <3>2. QED
      BY <2>1, <3>1
  <2>4. QED
    BY <2>1, <2>2, <2>3
<1>10. CASE RecClean \/ RecRecreate \/ RecRecovered
  BY <1>5, <1>10 DEF RecClean, RecRecreate, RecRecovered, RecContinue
<1>11. QED
  BY <1>2, <1>3, <1>4, <1>6, <1>8, <1>9, <1>10 DEF Reconcile

(* The work on one target: the items, and what else of the round changes. *)
LEMMA ResolveFields ==
    ASSUME TypeInv, NEW a \in Apps, RecResolve(a)
    PROVE  LET ps == {Target(a, rec.vol)} \cup SubPathTargets(a, rec.vol) IN
           /\ rec.pc = "target" /\ a \in rec.targets /\ UNCHANGED tableVars
           /\ rec'.targets = rec.targets \ {a} /\ rec'.items = Items(a, ps)
           /\ rec'.pc = "target" /\ rec'.apps = rec.apps /\ rec'.mis = rec.mis
           /\ rec'.todo = rec.todo /\ rec'.vol = rec.vol /\ rec.vol \in Vols
           /\ <<a, rec.vol>> \in Uses /\ ps \in SUBSET Paths
           /\ \A u \in Uses : T(u) \in ps => u = <<a, rec.vol>>
<1> DEFINE ps == {Target(a, rec.vol)} \cup SubPathTargets(a, rec.vol)
<1>1. /\ rec.pc = "target" /\ a \in rec.targets /\ UNCHANGED tableVars
      /\ rec' = [rec EXCEPT !.targets = @ \ {a}, !.items = Items(a, ps)]
  BY DEF RecResolve, RecContinue
<1>2. rec.vol \in Vols /\ rec \in Rounds
  BY <1>1 DEF TypeInv, RoundInv
<1>3. <<a, rec.vol>> \in Uses
  BY <1>1, <1>2 DEF TypeInv, RefInv, Users
<1>4. T(<<a, rec.vol>>) \in Paths /\ T(<<a, rec.vol>>) = Target(a, rec.vol)
  BY <1>3, PathFacts DEF T
<1>5. ps \in SUBSET Paths
  BY <1>4 DEF SubPathTargets
<1>6. \A u \in Uses : T(u) \in ps => u = <<a, rec.vol>>
  <2>1. \A p \in SubPathTargets(a, rec.vol) : p.kind = "subpath"
    BY DEF SubPathTargets
  <2>2. QED
    BY <1>3, <1>4, <2>1, PathFacts
<1> HIDE DEF ps
<1>7. /\ rec'.targets = rec.targets \ {a} /\ rec'.items = Items(a, ps)
      /\ rec'.pc = "target" /\ rec'.apps = rec.apps /\ rec'.mis = rec.mis
      /\ rec'.todo = rec.todo /\ rec'.vol = rec.vol
  BY <1>1, <1>2 DEF Rounds
<1>8. QED
  BY <1>1, <1>2, <1>3, <1>5, <1>6, <1>7 DEF ps

LEMMA ItemFields ==
    ASSUME TypeInv, NEW it \in rec.items, RecUmount(it) \/ RecBind(it)
    PROVE  /\ rec.pc = "target" /\ rec'.pc = "target" /\ it \in Item
           /\ rec'.apps = rec.apps /\ rec'.mis = rec.mis /\ rec'.todo = rec.todo
           /\ rec'.vol = rec.vol /\ rec'.targets = rec.targets
           /\ rec'.items = rec.items \ {it}
              \/ /\ RecUmount(it)
                 /\ rec'.items = (rec.items \ {it})
                                 \cup {[it EXCEPT !.pops = it.pops - 1]}
<1>1. rec \in Rounds /\ rec.items \subseteq Item
  BY DEF TypeInv, RoundInv, TypeOK
<1>2. rec.pc = "target"
  BY DEF RecUmount, RecBind, Current
<1>3. CASE RecBind(it)
  <2>1. rec' = [rec EXCEPT !.items = rec.items \ {it}]
    BY <1>3 DEF RecBind, RecContinue
  <2>2. QED
    BY <1>1, <1>2, <2>1 DEF Rounds
<1>4. CASE RecUmount(it)
  <2> DEFINE is == (rec.items \ {it}) \cup {[it EXCEPT !.pops = it.pops - 1]}
  <2>1. rec' = [rec EXCEPT !.items = is]
    BY <1>4 DEF RecUmount, RecContinue
  <2> HIDE DEF is
  <2>2. /\ rec'.pc = rec.pc /\ rec'.items = is
        /\ rec'.apps = rec.apps /\ rec'.mis = rec.mis /\ rec'.todo = rec.todo
        /\ rec'.vol = rec.vol /\ rec'.targets = rec.targets
    BY <1>1, <2>1 DEF Rounds
  <2>3. QED
    BY <1>1, <1>2, <1>4, <2>2 DEF is
<1>5. QED
  BY <1>3, <1>4

LEMMA ListStep ==
    ASSUME TypeInv, ListInv, [Next]_vars
    PROVE  ListInv'
<1>1. SUFFICES ASSUME NEW a \in Apps, rec'.pc # "idle", rec'.apps[a] = "deleting"
               PROVE  app'[a] \in Leaving
  BY DEF ListInv, Leaving
<1>2. SUFFICES app[a] \in Leaving
  BY AppStays
<1>3. CASE rec.pc # "idle" /\ rec'.apps = rec.apps
  BY <1>1, <1>3 DEF ListInv
<1>4. CASE rec' = rec
  BY <1>1, <1>3, <1>4
<1>5. CASE rec' = IdleRec
  BY <1>1, <1>5 DEF IdleRec
<1>6. CASE Reconcile
  <2>1. CASE rec'.apps = app
    BY <1>1, <2>1 DEF Leaving
  <2>2. CASE \E b \in Apps : RecResolve(b)
    BY <1>3, <2>2, ResolveFields
  <2>3. CASE \E it \in rec.items : RecUmount(it) \/ RecBind(it)
    BY <1>3, <2>3, ItemFields
  <2>4. QED
    BY <1>3, <1>5, <1>6, <2>1, <2>2, <2>3, RoundFields
<1>7. QED
  BY <1>4, <1>5, <1>6, RoundShape

LEMMA ItemStep ==
    ASSUME TypeInv, ItemInv, [Next]_vars
    PROVE  ItemInv'
<1>1. SUFFICES ASSUME NEW u \in Uses, NEW i \in rec'.items, i.path = T(u)
               PROVE  /\ u[2] = rec'.vol /\ u[1] \notin rec'.targets
                      /\ \A o \in rec'.items : o.path = i.path => o = i
  BY DEF ItemInv, T, Target
<1>2. CASE rec' = rec
  BY <1>1, <1>2 DEF ItemInv
<1>3. CASE rec'.items = {}
  BY <1>1, <1>3
<1>4. ASSUME NEW a \in Apps, RecResolve(a)
      PROVE  /\ u[2] = rec'.vol /\ u[1] \notin rec'.targets
             /\ \A o \in rec'.items : o.path = i.path => o = i
  <2> DEFINE ps == {Target(a, rec.vol)} \cup SubPathTargets(a, rec.vol)
  <2>1. /\ rec.pc = "target"
        /\ rec'.targets = rec.targets \ {a} /\ rec'.items = Items(a, ps)
        /\ rec'.vol = rec.vol /\ ps \in SUBSET Paths
        /\ \A x \in Uses : T(x) \in ps => x = <<a, rec.vol>>
    BY <1>4, ResolveFields
  <2>2. rec.mis \in [Paths -> Found]
    BY <2>1 DEF TypeInv, RoundInv
  <2> HIDE DEF ps
  <2>3. /\ \A it \in Items(a, ps) : it.path \in ps
        /\ \A it, other \in Items(a, ps) : it.path = other.path => it = other
    BY <2>1, <2>2, ItemsFacts
  <2>4. u = <<a, rec.vol>>
    BY <1>1, <2>1, <2>3
  <2>5. QED
    BY <1>1, <2>1, <2>3, <2>4
<1>5. ASSUME NEW it \in rec.items, RecUmount(it) \/ RecBind(it)
      PROVE  /\ u[2] = rec'.vol /\ u[1] \notin rec'.targets
             /\ \A o \in rec'.items : o.path = i.path => o = i
  <2> DEFINE less == [it EXCEPT !.pops = it.pops - 1]
  <2>1. /\ rec'.vol = rec.vol /\ rec'.targets = rec.targets /\ it \in Item
        /\ \/ rec'.items = rec.items \ {it}
           \/ rec'.items = (rec.items \ {it}) \cup {less}
    BY <1>5, ItemFields
  <2>2. less.path = it.path
    BY <2>1 DEF Item
  <2> HIDE DEF less
  <2>3. \A o \in rec'.items : \E b \in rec.items :
            b.path = o.path /\ (o = IF b = it THEN less ELSE b)
    <3>1. SUFFICES ASSUME NEW o \in rec'.items
                   PROVE  \E b \in rec.items :
                             b.path = o.path /\ (o = IF b = it THEN less ELSE b)
      OBVIOUS
    <3>2. CASE o \in rec.items \ {it}
      BY <3>2
    <3>3. CASE o = less
      BY <2>2, <3>3
    <3>4. QED
      BY <2>1, <3>1, <3>2, <3>3
  <2>4. PICK b \in rec.items :
            b.path = i.path /\ (i = IF b = it THEN less ELSE b)
    BY <1>1, <2>3
  <2>5. /\ u[2] = rec.vol /\ u[1] \notin rec.targets
        /\ \A o \in rec.items : o.path = b.path => o = b
    BY <1>1, <2>4 DEF ItemInv
  <2>6. ASSUME NEW o \in rec'.items, o.path = i.path PROVE o = i
    <3>1. PICK d \in rec.items :
            d.path = o.path /\ (o = IF d = it THEN less ELSE d)
      BY <2>3
    <3>2. d = b
      BY <2>4, <2>5, <2>6, <3>1
    <3>3. QED
      BY <2>4, <3>1, <3>2
  <2>7. QED
    BY <2>1, <2>5, <2>6
<1>6. IdleRec.items = {}
  BY DEF IdleRec
<1>7. QED
  BY <1>2, <1>3, <1>4, <1>5, <1>6, RoundShape, RoundFields

(* What a step does to the stack of a target of a pod that stays. *)
LEMMA StackStep ==
    ASSUME TypeInv, EntryInv, CallInv, [Next]_vars,
           NEW u \in Uses, app[u[1]] \notin Leaving
    PROVE  /\ Len(mounts[T(u)]) \in Nat /\ Len(mounts'[T(u)]) \in Nat
           /\ mounts[T(u)] = <<>> <=> Len(mounts[T(u)]) = 0
           /\ mounts'[T(u)] = <<>> <=> Len(mounts'[T(u)]) = 0
           /\ \/ Len(mounts[T(u)]) <= Len(mounts'[T(u)])
              \/ \E it \in rec.items :
                    /\ RecUmount(it) /\ it.path = T(u)
                    /\ mounts[T(u)] # <<>> =>
                          Len(mounts'[T(u)]) = Len(mounts[T(u)]) - 1
<1>1. TableInv /\ TableInv' /\ T(u) \in Paths
  BY TableStep, PathFacts DEF TableInv, TypeInv, TypeOK, SrcStates
<1>2. /\ Len(mounts[T(u)]) \in Nat
      /\ mounts[T(u)] = <<>> <=> Len(mounts[T(u)]) = 0
  BY <1>1, LenFacts
<1>3. /\ Len(mounts'[T(u)]) \in Nat
      /\ mounts'[T(u)] = <<>> <=> Len(mounts'[T(u)]) = 0
  <2>1. mounts'[T(u)] \in Seq(Entry)
    BY <1>1 DEF TableInv
  <2>2. QED
    BY <2>1, LenProperties, EmptySeq
<1>4. CASE TableKept
  BY <1>2, <1>3, <1>4 DEF TableKept, Grows
<1>5. ASSUME NEW it \in rec.items, RecUmount(it)
      PROVE  \/ Len(mounts[T(u)]) <= Len(mounts'[T(u)])
             \/ /\ RecUmount(it) /\ it.path = T(u)
                /\ mounts[T(u)] # <<>> =>
                      Len(mounts'[T(u)]) = Len(mounts[T(u)]) - 1
  <2>1. it.path \in Paths /\ Umount(it.path)
    BY <1>5 DEF TypeInv, TypeOK, Item, RecUmount
  <2>2. /\ mounts[it.path] # <<>> =>
              Len(mounts'[it.path]) = Len(mounts[it.path]) - 1
        /\ \A q \in Paths : q # it.path => mounts'[q] = mounts[q]
    BY <1>1, <2>1, UmountKeeps
  <2>3. CASE it.path = T(u)
    BY <1>5, <2>2, <2>3
  <2>4. CASE it.path # T(u)
    BY <1>1, <1>2, <2>2, <2>4
  <2>5. QED
    BY <2>3, <2>4
<1>6. QED
  BY <1>2, <1>3, <1>4, <1>5, TableStep

(* Whatever the round has yet to resolve was to be resolved before.  *)
LEMMA UnresolvedStep ==
    ASSUME TypeInv, [Next]_vars, ~RecParse, ~RecList, NEW u \in Uses,
           rec'.pc \notin {"idle", "parse"},
           \/ u[2] \in rec'.todo
           \/ u[2] = rec'.vol /\ (rec'.pc = "target" => u[1] \in rec'.targets)
    PROVE  Unresolved(u) /\ rec'.mis = rec.mis
<1>1. u[2] \in Vols /\ Nobody \notin Vols
  BY PathFacts, RecoveryAssumption
<1>2. CASE rec' = rec
  BY <1>2 DEF Unresolved
<1>3. IdleRec.pc = "idle"
  BY DEF IdleRec
<1>4. CASE Reconcile
  <2>1. CASE \E a \in Apps : RecResolve(a)
    BY <2>1, ResolveFields DEF Unresolved
  <2>2. CASE \E it \in rec.items : RecUmount(it) \/ RecBind(it)
    BY <2>2, ItemFields DEF Unresolved
  <2>3. CASE /\ rec.pc \notin {"idle", "parse"}
             /\ rec'.apps = rec.apps /\ rec'.mis = rec.mis /\ rec'.items = {}
             /\ \/ \E v \in rec.todo : /\ rec'.todo = rec.todo \ {v}
                                       /\ rec'.vol \in {v, Nobody}
                \/ rec'.todo = rec.todo /\ rec'.vol = Nobody
                \/ /\ rec'.todo = rec.todo /\ rec'.vol = rec.vol
                   /\ rec.pc # "target"
    BY <1>1, <2>3 DEF Unresolved
  <2>4. QED
    BY <1>3, <1>4, <2>1, <2>2, <2>3, RoundFields
<1>5. QED
  BY <1>2, <1>3, <1>4, RoundShape

(* Of the mounts of a target the round counts no more than there are, and  *)
(* takes off one less.                                                     *)
LEMMA CountStep ==
    ASSUME TypeInv, EntryInv, CallInv, ListInv, ItemInv, CountInv, [Next]_vars
    PROVE  CountInv'
<1>1. SUFFICES ASSUME NEW u \in Uses, app'[u[1]] \notin Leaving
               PROVE  /\ /\ rec'.pc \notin {"idle", "parse"}
                         /\ \/ u[2] \in rec'.todo
                            \/ /\ u[2] = rec'.vol
                               /\ rec'.pc = "target" => u[1] \in rec'.targets
                         => rec'.mis[T(u)].count <= Len(mounts'[T(u)])
                      /\ \A it \in rec'.items :
                            it.path = T(u) => it.pops < Len(mounts'[T(u)])
  BY DEF CountInv, Unresolved, T, Target, Leaving
<1>2. u[1] \in Apps /\ T(u) \in Paths
  BY PathFacts
<1>3. app[u[1]] \notin Leaving
  BY <1>1, <1>2, AppStays
<1>4. /\ Unresolved(u) => rec.mis[T(u)].count <= Len(mounts[T(u)])
      /\ \A it \in rec.items : it.path = T(u) => it.pops < Len(mounts[T(u)])
  BY <1>3 DEF CountInv
<1>5. /\ Len(mounts[T(u)]) \in Nat /\ Len(mounts'[T(u)]) \in Nat
      /\ mounts[T(u)] = <<>> <=> Len(mounts[T(u)]) = 0
      /\ \/ Len(mounts[T(u)]) <= Len(mounts'[T(u)])
         \/ \E it \in rec.items :
               /\ RecUmount(it) /\ it.path = T(u)
               /\ mounts[T(u)] # <<>> =>
                     Len(mounts'[T(u)]) = Len(mounts[T(u)]) - 1
  BY <1>3, StackStep
<1>6. \A it \in rec.items : it.pops \in Nat
  BY DEF TypeInv, TypeOK, Item
<1>7. ASSUME rec'.pc \notin {"idle", "parse"},
             \/ u[2] \in rec'.todo
             \/ u[2] = rec'.vol /\ (rec'.pc = "target" => u[1] \in rec'.targets)
      PROVE  rec'.mis[T(u)].count <= Len(mounts'[T(u)])
  <2>1. CASE RecList
    BY <1>7, <2>1 DEF RecList, RecContinue, TypeInv, RoundInv, Rounds
  <2>2. CASE RecParse
    <3>1. /\ UNCHANGED tableVars
          /\ \A p \in Paths : rec'.mis[p].count = Len(mounts[p])
      BY <2>2, ParseFields
    <3>2. QED
      BY <1>2, <1>5, <3>1 DEF tableVars
  <2>3. CASE ~RecList /\ ~RecParse
    <3>1. Unresolved(u) /\ rec'.mis = rec.mis
      <4>1. CASE u[2] \in rec'.todo
        BY <1>7, <2>3, <4>1, UnresolvedStep
      <4>2. CASE u[2] = rec'.vol /\ (rec'.pc = "target" => u[1] \in rec'.targets)
        BY <1>7, <2>3, <4>2, UnresolvedStep
      <4>3. QED
        BY <1>7, <4>1, <4>2
    <3>2. rec.mis[T(u)].count \in Nat
      BY <1>2, <3>1 DEF Unresolved, TypeInv, RoundInv, Found
    <3>3. ~ \E it \in rec.items : RecUmount(it) /\ it.path = T(u)
      <4>1. SUFFICES ASSUME NEW it \in rec.items, RecUmount(it), it.path = T(u)
                     PROVE  FALSE
        OBVIOUS
      <4>2. u[2] = rec.vol /\ u[1] \notin rec.targets /\ rec.pc = "target"
        BY <4>1 DEF ItemInv, RecUmount, Current
      <4>3. rec.vol \notin rec.todo
        BY DEF TypeInv, RoundInv
      <4>4. QED
        BY <3>1, <4>2, <4>3 DEF Unresolved
    <3>4. QED
      BY <1>4, <1>5, <3>1, <3>2, <3>3
  <2>4. QED
    BY <2>1, <2>2, <2>3
<1>8. ASSUME NEW i \in rec'.items, i.path = T(u)
      PROVE  i.pops < Len(mounts'[T(u)])
  <2>1. CASE i \in rec.items /\ ~ \E it \in rec.items : RecUmount(it) /\ it.path = T(u)
    BY <1>4, <1>5, <1>6, <1>8, <2>1
  <2>2. ASSUME NEW it \in rec.items, RecUmount(it) PROVE i.pops < Len(mounts'[T(u)])
    <3> DEFINE less == [it EXCEPT !.pops = it.pops - 1]
    <3>1. /\ it \in Item
          /\ \/ rec'.items = rec.items \ {it}
             \/ rec'.items = (rec.items \ {it}) \cup {less}
      BY <2>2, ItemFields
    <3>2. less.path = it.path /\ less.pops = it.pops - 1 /\ it.pops \in Nat
      BY <3>1 DEF Item
    <3> HIDE DEF less
    <3>3. CASE it.path = T(u)
      <4>1. it.pops > 0 /\ it.pops < Len(mounts[T(u)])
        BY <1>4, <2>2, <3>3 DEF RecUmount
      <4>2. i = less
        BY <1>8, <3>1, <3>3 DEF ItemInv
      <4>3. Len(mounts'[T(u)]) = Len(mounts[T(u)]) - 1
            \/ Len(mounts[T(u)]) <= Len(mounts'[T(u)])
        BY <1>5, <3>2, <4>1
      <4>4. QED
        BY <1>5, <3>2, <4>1, <4>2, <4>3
    <3>4. CASE it.path # T(u)
      <4>1. i \in rec.items
        BY <1>8, <3>1, <3>2, <3>4
      <4>2. Len(mounts[T(u)]) <= Len(mounts'[T(u)])
        <5>1. it.path \in Paths /\ TableInv
          BY <3>1 DEF Item, TableInv, TypeInv, TypeOK, SrcStates
        <5>2. mounts'[T(u)] = mounts[T(u)]
          BY <1>2, <2>2, <3>4, <5>1, UmountKeeps DEF RecUmount
        <5>3. QED
          BY <1>5, <5>2
      <4>3. QED
        BY <1>4, <1>5, <1>6, <1>8, <4>1, <4>2
    <3>5. QED
      BY <3>3, <3>4
  <2>3. ASSUME NEW a \in Apps, RecResolve(a) PROVE i.pops < Len(mounts'[T(u)])
    <3> DEFINE ps == {Target(a, rec.vol)} \cup SubPathTargets(a, rec.vol)
    <3>1. /\ rec.pc = "target" /\ a \in rec.targets /\ UNCHANGED tableVars
          /\ rec'.items = Items(a, ps) /\ ps \in SUBSET Paths
          /\ \A x \in Uses : T(x) \in ps => x = <<a, rec.vol>>
      BY <2>3, ResolveFields
    <3>2. rec.mis \in [Paths -> Found]
      BY <3>1 DEF TypeInv, RoundInv
    <3> HIDE DEF ps
    <3>3. /\ i.path \in ps
          /\ \/ /\ Stat(i.path) = "corrupt"
                /\ i.pops = IF rec.mis[i.path].count > 0
                            THEN rec.mis[i.path].count - 1 ELSE 0
             \/ rec.apps[a] = "deleting"
      BY <1>8, <3>1, <3>2, ItemsFacts
    <3>4. u = <<a, rec.vol>>
      BY <1>8, <3>1, <3>3
    <3>5. rec.apps[a] # "deleting"
      BY <1>3, <3>1, <3>4 DEF ListInv
    <3>6. mounts[T(u)] # <<>>
      BY <1>8, <3>3, <3>5, StatFacts
    <3>7. Unresolved(u)
      BY <3>1, <3>4 DEF Unresolved
    <3>8. rec.mis[T(u)].count \in Nat
      BY <1>2, <3>2 DEF Found
    <3>9. mounts' = mounts
      BY <3>1 DEF tableVars
    <3>10. QED
      BY <1>4, <1>5, <1>8, <3>3, <3>5, <3>6, <3>7, <3>8, <3>9
  <2>4. CASE ~ \E it \in rec.items : RecUmount(it)
    <3>1. CASE i \in rec.items
      BY <2>1, <2>4, <3>1
    <3>2. CASE i \notin rec.items
      <4>1. IdleRec.items = {}
        BY DEF IdleRec
      <4>2. \E a \in Apps : RecResolve(a)
        BY <1>8, <2>4, <3>2, <4>1, RoundShape, RoundFields, ItemFields
      <4>3. QED
        BY <2>3, <4>2
    <3>3. QED
      BY <3>1, <3>2
  <2>5. QED
    BY <2>2, <2>4
<1>9. QED
  BY <1>7, <1>8

(* A published target keeps its last mount. *)
LEMMA PublishedStep ==
    ASSUME TypeInv, EntryInv, CallInv, CountInv, PublishedInv, [Next]_vars
    PROVE  PublishedInv'
<1>1. SUFFICES ASSUME NEW u \in Uses, vstate'[u] = "published",
                      app'[u[1]] \notin Leaving
               PROVE  mounts'[T(u)] # <<>>
  BY DEF PublishedInv, T, Target, Leaving
<1>2. u[1] \in Apps /\ T(u) \in Paths
  BY PathFacts
<1>3. app[u[1]] \notin Leaving
  BY <1>1, <1>2, AppStays
<1>4. /\ Len(mounts[T(u)]) \in Nat /\ Len(mounts'[T(u)]) \in Nat
      /\ mounts[T(u)] = <<>> <=> Len(mounts[T(u)]) = 0
      /\ mounts'[T(u)] = <<>> <=> Len(mounts'[T(u)]) = 0
      /\ \/ Len(mounts[T(u)]) <= Len(mounts'[T(u)])
         \/ \E it \in rec.items :
               /\ RecUmount(it) /\ it.path = T(u)
               /\ mounts[T(u)] # <<>> =>
                     Len(mounts'[T(u)]) = Len(mounts[T(u)]) - 1
  BY <1>3, StackStep
<1>5. CASE vstate[u] = "published"
  <2>1. mounts[T(u)] # <<>>
    BY <1>3, <1>5 DEF PublishedInv
  <2>2. ASSUME NEW it \in rec.items, RecUmount(it), it.path = T(u)
        PROVE  Len(mounts[T(u)]) > 1
    <3>1. it.pops \in Nat /\ it.pops > 0 /\ it.pops < Len(mounts[T(u)])
      BY <1>3, <2>2 DEF CountInv, TypeInv, TypeOK, Item, RecUmount
    <3>2. QED
      BY <1>4, <3>1
  <2>3. QED
    BY <1>4, <2>1, <2>2
<1>6. CASE vstate[u] # "published"
  <2>1. vstate \in [Uses -> Answers] /\ vstate' # vstate
    BY <1>1, <1>6 DEF TypeInv, TypeOK, Answers
  <2>2. PICK w \in Workers : Call(w)
    <3>1. ASSUME NEW w \in Workers, NEW y \in Uses, AskPublish(w, y) \/ AskUnpublish(w, y)
          PROVE  FALSE
      BY <1>1, <1>6, <2>1, <3>1 DEF AskPublish, AskUnpublish
    <3>2. QED
      BY <2>1, <3>1, OtherCalls
  <2>3. PICK answer : /\ Return(w, answer)
                      /\ answer = "published" =>
                            \E st \in Shown(call[w].vol) :
                               BindMount(PathOf(w), call[w].vol, st)
    BY <2>1, <2>2, CallShape
  <2>4. u = <<call[w].app, call[w].vol>> /\ answer = "published"
    BY <1>1, <1>6, <2>1, <2>3 DEF Return
  <2>5. /\ PathOf(w) = T(u) /\ call[w].vol \in Vols /\ TableInv
    BY <2>2, <2>4, CallPath, CallShape DEF TableInv, TypeInv, TypeOK, SrcStates
  <2>6. PICK st \in Shown(call[w].vol) : BindMount(PathOf(w), call[w].vol, st)
    BY <2>3, <2>4
  <2>7. Len(mounts'[T(u)]) = Len(mounts[T(u)]) + 1
    BY <1>2, <2>5, <2>6, BindKeeps
  <2>8. QED
    BY <1>4, <2>7
<1>7. QED
  BY <1>5, <1>6

-----------------------------------------------------------------------------
LEMMA InitInv == Init => IInv
<1>1. SUFFICES ASSUME Init PROVE IInv
  OBVIOUS
<1>2. /\ mounts = [p \in Paths |-> <<>>] /\ dirs = {} /\ src = [v \in Vols |-> "none"]
      /\ subdirs = Vols /\ pod = [v \in Vols |-> Absent]
      /\ app = [a \in Apps |-> "absent"] /\ vstate = [u \in Uses |-> "none"]
      /\ asked = [u \in Uses |-> Nobody] /\ call = [w \in Workers |-> IdleCall]
      /\ rec = IdleRec /\ hanging = {} /\ faults = 0
  BY <1>1 DEF Init, MountTableInit
<1>3. /\ IdleRec \in Rounds /\ IdleRec.pc = "idle" /\ IdleRec.vol = Nobody
      /\ IdleRec.todo = {} /\ IdleRec.items = {} /\ IdleRec.targets = {}
  BY DEF IdleRec, Rounds, RecLabels
<1>4. IdleCall \in Calls /\ IdleCall.pc = "idle"
  BY DEF IdleCall, Calls
<1>5. Absent \in Pod /\ Absent.refs = {}
  BY PodFacts DEF Absent
<1>6. Nobody \notin Vols /\ 0 \in 0..MaxFaults
  BY RecoveryAssumption
<1>7. \A u \in Uses : T(u) \in Paths /\ mounts[T(u)] = <<>>
  BY <1>2, PathFacts
<1>8. mounts \in [Paths -> Seq(Entry)]
  BY <1>2
<1>9. TypeOK
  BY <1>2, <1>3, <1>5, <1>6, <1>8 DEF TypeOK
<1>10. RoundInv /\ RefInv
  BY <1>2, <1>3, <1>5, <1>6 DEF RoundInv, RefInv
<1>11. TypeInv
  BY <1>2, <1>4, <1>9, <1>10 DEF TypeInv
<1>12. EntryInv
  BY <1>7 DEF EntryInv
<1>13. CallInv
  BY <1>2, <1>4 DEF CallInv
<1>14. UnboundInv /\ PublishedInv
  BY <1>2, <1>4 DEF UnboundInv, PublishedInv
<1>15. ListInv /\ ItemInv /\ CountInv
  BY <1>2, <1>3 DEF ListInv, ItemInv, CountInv, Unresolved
<1>16. QED
  BY <1>11, <1>12, <1>13, <1>14, <1>15 DEF IInv

LEMMA StepInv == IInv /\ [Next]_vars => IInv'
<1>1. SUFFICES ASSUME IInv, [Next]_vars PROVE IInv'
  OBVIOUS
<1>2. TableInv'
  BY <1>1, TableStep DEF IInv
<1>3. TypeInv'
  BY <1>1, <1>2, TypeStep DEF IInv
<1>4. EntryInv'
  BY <1>2 DEF TableInv
<1>5. CallInv'
  BY <1>1, CallInvStep DEF IInv, CallInv
<1>6. UnboundInv' /\ ListInv' /\ ItemInv' /\ CountInv' /\ PublishedInv'
  BY <1>1, UnboundStep, ListStep, ItemStep, CountStep, PublishedStep DEF IInv
<1>7. QED
  BY <1>3, <1>4, <1>5, <1>6 DEF IInv

(* The inductive invariant holds in every state a behaviour reaches. *)
THEOREM Invariance == Spec => []IInv
<1>1. Init => IInv
  BY InitInv
<1>2. IInv /\ [Next]_vars => IInv'
  BY StepInv
<1>3. QED
  BY <1>1, <1>2, PTL DEF Spec

(* Every variable keeps its type, whatever calls, rounds of the reconciler *)
(* and faults there are.                                                   *)
THEOREM TypeCorrect == Spec => []TypeOK
<1>1. IInv => TypeOK
  BY DEF IInv, TypeInv
<1>2. QED
  BY <1>1, Invariance, PTL

(* After a successful NodeUnpublishVolume nothing is mounted on the target *)
(* and its directory is gone: neither the reconciler's recoverTarget,      *)
(* which works from an older mount table, nor a NodePublishVolume kubelet  *)
(* gave up brings it back.                                                 *)
THEOREM UnpublishedIsUnboundHolds == Spec => []UnpublishedIsUnbound
<1>1. IInv => UnpublishedIsUnbound
  BY DEF IInv, UnboundInv, Unbound, UnpublishedIsUnbound, T
<1>2. QED
  BY <1>1, Invariance, PTL

(* A published target of a pod that is not being deleted always has a      *)
(* mount: umountTarget, which counts the mounts in the table of the start  *)
(* of the round, never takes the last one off.                             *)
THEOREM PublishedStaysMountedHolds == Spec => []PublishedStaysMounted
<1>1. IInv => PublishedStaysMounted
  BY DEF IInv, PublishedInv, PublishedStaysMounted, Leaving, T
<1>2. QED
  BY <1>1, Invariance, PTL

=============================================================================
