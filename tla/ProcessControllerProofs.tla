----------------------- MODULE ProcessControllerProofs ----------------------
(***************************************************************************)
(* Proofs about ProcessController, for every number of threads, devices    *)
(* and faults and every interleaving of a call with those given up before  *)
(* it: the types, and that every mount left behind is paid for by a fault. *)
(***************************************************************************)
EXTENDS ProcessController, SequenceTheorems, FiniteSetTheorems, TLAPS

(* Where a call has not started its process yet, and where it has. *)
Before == {"c_format", "j_mount", "j_umount"}
After == {"j_poll", "c_vol", "c_umount"}
Labels == {"idle"} \cup Before \cup After

(* The types, with those of the labels, of the provisioner's call and of   *)
(* faults; the call the provisioner waits for runs.                        *)
TypeInv ==
    /\ TypeOK
    /\ pc \in [Workers -> Labels]
    /\ asked \in Workers \cup {Nobody}
    /\ faults \in Nat
    /\ \A w \in Workers : asked = w => pc[w] # "idle"

(* Calls that were given up before they started a process: each may leave  *)
(* one mount more.                                                         *)
Fresh == {w \in Workers : pc[w] \in Before /\ asked # w}

(* What is or will be mounted, but for the provisioner's call. *)
Load == Len(base) + Cardinality(starting) + Cardinality(Fresh)

(* The provisioner's call has started a process. *)
Served == \E w \in Workers : asked = w /\ pc[w] \in After

DeadMounted == \E i \in DOMAIN base : base[i] \in dead

(* The provisioner's call will not unmount its own: it has none yet, or    *)
(* fails on what a client that died has left, or finds nothing mounted     *)
(* because another call has unmounted it.                                  *)
Failing ==
    \/ ~Served
    \/ DeadMounted
    \/ base = <<>> /\ \E w \in Workers : asked = w /\ pc[w] \in {"c_vol", "c_umount"}

(* Everything is paid for, but one mount of the provisioner's call as long *)
(* as it may still unmount it.                                             *)
LoadInv ==
    /\ IsFiniteSet(Fresh)
    /\ Cardinality(Fresh) <= faults
    /\ Load <= faults + 1
    /\ Failing => Load <= faults
    /\ starting \cap dead = {}

IInv == TypeInv /\ LoadInv

-----------------------------------------------------------------------------
(* A stack without its topmost mount is a stack of the same devices. *)
LEMMA PopType ==
    ASSUME NEW S, NEW s \in Seq(S), s # <<>>
    PROVE  Pop(s) \in Seq(S) /\ Len(Pop(s)) = Len(s) - 1
<1>1. Len(s) \in Nat \ {0}
  BY EmptySeq, LenProperties
<1>n. \A k \in Nat \ {0} :
          k - 1 \in Int /\ (IF 1 <= k - 1 THEN (k - 1) - 1 + 1 ELSE 0) = k - 1
  OBVIOUS
<1> DEFINE n == Len(s) - 1
<1>2. n \in Int /\ (IF 1 <= n THEN n - 1 + 1 ELSE 0) = n
  BY <1>1, <1>n
<1>3. \A i \in 1..n : s[i] \in S
  BY <1>1, LenProperties, ElementOfSeq
<1> HIDE DEF n
<1>4. /\ SubSeq(s, 1, n) \in Seq(S)
      /\ Len(SubSeq(s, 1, n)) = IF 1 <= n THEN n - 1 + 1 ELSE 0
  BY <1>2, <1>3, SubSeqProperties
<1>5. QED
  BY <1>2, <1>4 DEF Pop, n

(* The answer of a call, whatever it is, keeps the types. *)
LEMMA ReturnType ==
    ASSUME TypeInv, NEW w \in Workers,
           NEW told \in {"create", "created", "delete", "deleted"},
           Return(w, told)
    PROVE  /\ pc' = [pc EXCEPT ![w] = "idle"]
           /\ pc' \in [Workers -> Labels]
           /\ op' \in [Workers -> {"none", "create", "delete"}]
           /\ asked' \in Workers \cup {Nobody}
           /\ want' \in {"create", "created", "delete", "deleted"}
           /\ \A v \in Workers : asked' = v => pc'[v] # "idle"
BY ProcessAssumption DEF TypeInv, TypeOK, Return, Labels

LEMMA InitType == Init => TypeInv
BY ProcessAssumption DEF Init, ProcessInit, TypeInv, TypeOK, Labels

LEMMA NextType == TypeInv /\ [Next]_vars => TypeInv'
<1> SUFFICES ASSUME TypeInv, [Next]_vars PROVE TypeInv'
  OBVIOUS
<1>0. /\ base \in Seq(Devs) /\ starting \subseteq Devs /\ dead \subseteq Devs
      /\ op \in [Workers -> {"none", "create", "delete"}]
      /\ want \in {"create", "created", "delete", "deleted"}
      /\ pc \in [Workers -> Labels]
      /\ asked \in Workers \cup {Nobody} /\ Nobody \notin Workers
      /\ faults \in Nat
      /\ \A w \in Workers : asked = w => pc[w] # "idle"
  BY ProcessAssumption DEF TypeInv, TypeOK
<1>1. ASSUME NEW w \in Workers, GetSettings(w) PROVE TypeInv'
  <2>1. CASE Continue(w, "j_mount")
    BY <1>0, <1>1, <2>1
       DEF GetSettings, Continue, Goto, mountVars, TypeInv, TypeOK, Labels,
           Before
  <2>2. CASE Fail(w)
    BY <1>0, <1>1, <2>2, ReturnType
       DEF GetSettings, Fail, mountVars, TypeInv, TypeOK
  <2>3. QED
    BY <1>1, <2>1, <2>2 DEF GetSettings
<1>s. ASSUME NEW w \in Workers, NEW s \in Seq(Devs), Start(w, InUse, s),
             UNCHANGED <<faults, op, asked, want>>
      PROVE  TypeInv'
  BY <1>0, <1>s DEF Start, Goto, TypeInv, TypeOK, Labels, After
<1>2. ASSUME NEW w \in Workers, VolMount(w) PROVE TypeInv'
  <2>1. CASE Fail(w) /\ UNCHANGED mountVars
    BY <1>0, <1>2, <2>1, ReturnType
       DEF VolMount, Fail, mountVars, TypeInv, TypeOK
  <2>2. CASE Goto(w, "j_umount") /\ UNCHANGED mountVars
    <3>1. pc'[w] = "j_umount"
      BY <1>0, <2>2 DEF Goto
    <3>2. UNCHANGED <<faults, op, asked, want>>
      BY <1>2, <3>1 DEF VolMount
    <3>3. QED
      BY <1>0, <2>2, <3>2 DEF Goto, mountVars, TypeInv, TypeOK, Labels, Before
  <2>3. CASE Start(w, InUse, base)
    <3>1. pc'[w] = "j_poll"
      BY <1>0, <2>3 DEF Start, Goto
    <3>2. UNCHANGED <<faults, op, asked, want>>
      BY <1>2, <3>1 DEF VolMount
    <3>3. QED
      BY <1>0, <1>s, <2>3, <3>2
  <2>4. QED
    BY <1>2, <2>1, <2>2, <2>3 DEF VolMount, JMount
<1>2a. ASSUME NEW w \in Workers, VolRemount(w) PROVE TypeInv'
  <2>1. CASE Fail(w) /\ UNCHANGED mountVars
    BY <1>0, <1>2a, <2>1, ReturnType
       DEF VolRemount, Fail, mountVars, TypeInv, TypeOK
  <2>2. CASE base # <<>> /\ Start(w, InUse, Pop(base))
    <3>1. pc'[w] = "j_poll"
      BY <1>0, <2>2 DEF Start, Goto
    <3>2. UNCHANGED <<faults, op, asked, want>>
      BY <1>2a, <3>1 DEF VolRemount
    <3>3. Pop(base) \in Seq(Devs)
      BY <1>0, <2>2, PopType
    <3>4. QED
      BY <1>s, <2>2, <3>2, <3>3
  <2>3. QED
    BY <1>2a, <2>1, <2>2 DEF VolRemount, JUnmount
<1>3. ASSUME NEW w \in Workers, VolPoll(w) PROVE TypeInv'
  <2>1. UNCHANGED mountVars /\ faults' \in Nat
    BY <1>0, <1>3 DEF VolPoll, JPoll, OneShot
  <2>2. CASE Fail(w)
    BY <1>0, <2>1, <2>2, ReturnType DEF Fail, mountVars, TypeInv, TypeOK
  <2>3. CASE ~Fail(w)
    <3>1. pc' = [pc EXCEPT ![w] = "c_vol"]
      BY <1>3, <2>3 DEF VolPoll, JPoll, Goto
    <3>2. pc'[w] = "c_vol"
      BY <1>0, <3>1
    <3>3. UNCHANGED <<op, asked, want>>
      BY <1>3, <3>2 DEF VolPoll
    <3>4. QED
      BY <1>0, <2>1, <3>1, <3>3 DEF mountVars, TypeInv, TypeOK, Labels, After
  <2>4. QED
    BY <2>2, <2>3
<1>4. ASSUME NEW w \in Workers, CreateVol(w) \/ DeleteVol(w) PROVE TypeInv'
  <2>1. UNCHANGED <<base, starting, dead, faults>>
    BY <1>4 DEF CreateVol, DeleteVol
  <2>2. CASE Fail(w)
    BY <1>0, <2>1, <2>2, ReturnType DEF Fail, TypeInv, TypeOK
  <2>3. CASE Continue(w, "c_umount")
    BY <1>0, <2>1, <2>3 DEF Continue, Goto, TypeInv, TypeOK, Labels, After
  <2>4. QED
    BY <1>4, <2>2, <2>3 DEF CreateVol, DeleteVol
<1>5. ASSUME NEW w \in Workers, VolUnmount(w) PROVE TypeInv'
  <2>1. base' \in Seq(Devs)
    BY <1>0, <1>5, PopType DEF VolUnmount
  <2>2. PICK told \in {"create", "created", "delete", "deleted"} :
            Return(w, told)
    BY <1>0, <1>5 DEF VolUnmount, Fail, Succeed
  <2>3. QED
    BY <1>0, <1>5, <2>1, <2>2, ReturnType DEF VolUnmount, TypeInv, TypeOK
<1>6. ASSUME NEW w \in Workers, Ask(w) PROVE TypeInv'
  BY <1>0, <1>6 DEF Ask, Goto, mountVars, TypeInv, TypeOK, Labels, Before
<1>7. ASSUME NEW d \in Devs, Process(d) PROVE TypeInv'
  <2>1. CASE ProcessMounts(d)
    BY <1>0, <1>7, <2>1 DEF Process, ProcessMounts, TypeInv, TypeOK
  <2>2. CASE ProcessDies(d)
    BY <1>0, <1>7, <2>2 DEF Process, ProcessDies, OneShot, TypeInv, TypeOK
  <2>3. QED
    BY <1>7, <2>1, <2>2 DEF Process
<1>8. CASE Claim
  BY <1>0, <1>8 DEF Claim, mountVars, TypeInv, TypeOK
<1>9. CASE CallTimeout
  BY <1>0, <1>9 DEF CallTimeout, OneShot, mountVars, TypeInv, TypeOK
<1>10. CASE Crash
  BY <1>0, <1>10 DEF Crash, OneShot, TypeInv, TypeOK, Labels
<1>11. CASE UNCHANGED vars
  BY <1>0, <1>11 DEF vars, mountVars, TypeInv, TypeOK
<1>12. QED
  BY <1>1, <1>2, <1>2a, <1>3, <1>4, <1>5, <1>6, <1>7, <1>8, <1>9, <1>10, <1>11
     DEF Next, Call

(* Every variable keeps its type, however many calls run at a time. *)
THEOREM TypeCorrect == Spec => []TypeOK
<1>1. TypeInv => TypeOK
  BY DEF TypeInv
<1>2. QED
  BY InitType, NextType, <1>1, PTL DEF Spec

-----------------------------------------------------------------------------
(* The mounts left behind *)

(* The parts of Load are natural numbers. *)
LEMMA LoadParts ==
    ASSUME TypeInv, IsFiniteSet(Fresh)
    PROVE  /\ Len(base) \in Nat /\ IsFiniteSet(starting)
           /\ Cardinality(starting) \in Nat /\ Cardinality(Fresh) \in Nat
<1>1. IsFiniteSet(Devs)
  BY ProcessAssumption, FS_Interval DEF Devs
<1>2. IsFiniteSet(starting)
  BY <1>1, FS_Subset DEF TypeInv, TypeOK
<1>3. Len(base) \in Nat
  BY LenProperties DEF TypeInv, TypeOK
<1>4. QED
  BY <1>2, <1>3, FS_CardinalityType

(* What a step may do to the calls that were given up. *)
LEMMA FreshFacts ==
    ASSUME IsFiniteSet(Fresh)
    PROVE  /\ Fresh' \subseteq Fresh =>
                 IsFiniteSet(Fresh') /\ Cardinality(Fresh') <= Cardinality(Fresh)
           /\ \A w \in Fresh : Fresh' \subseteq Fresh \ {w} =>
                 IsFiniteSet(Fresh') /\ Cardinality(Fresh') <= Cardinality(Fresh) - 1
           /\ \A w : Fresh' \subseteq Fresh \cup {w} =>
                 IsFiniteSet(Fresh') /\ Cardinality(Fresh') <= Cardinality(Fresh) + 1
<1>0. Cardinality(Fresh) \in Nat
  BY FS_CardinalityType
<1>1. Fresh' \subseteq Fresh =>
         IsFiniteSet(Fresh') /\ Cardinality(Fresh') <= Cardinality(Fresh)
  BY FS_Subset
<1>2. ASSUME NEW w \in Fresh, Fresh' \subseteq Fresh \ {w}
      PROVE  IsFiniteSet(Fresh') /\ Cardinality(Fresh') <= Cardinality(Fresh) - 1
  <2>1. IsFiniteSet(Fresh \ {w}) /\ Cardinality(Fresh \ {w}) = Cardinality(Fresh) - 1
    BY FS_RemoveElement
  <2>2. QED
    BY <1>2, <2>1, FS_Subset
<1>3. ASSUME NEW w, Fresh' \subseteq Fresh \cup {w}
      PROVE  IsFiniteSet(Fresh') /\ Cardinality(Fresh') <= Cardinality(Fresh) + 1
  <2> DEFINE S == Fresh \cup {w}
  <2>1. /\ IsFiniteSet(S)
        /\ Cardinality(S) = Cardinality(Fresh) \/ Cardinality(S) = Cardinality(Fresh) + 1
    BY FS_AddElement
  <2> HIDE DEF S
  <2>2. IsFiniteSet(Fresh') /\ Cardinality(Fresh') <= Cardinality(S)
    BY <1>3, <2>1, FS_Subset DEF S
  <2>3. Cardinality(Fresh') \in Nat /\ Cardinality(S) \in Nat
    BY <2>1, <2>2, FS_CardinalityType
  <2>4. QED
    BY <1>0, <2>1, <2>2, <2>3
<1>4. QED
  BY <1>1, <1>2, <1>3

(* A call that ends without an unmount: if the provisioner waits for it,   *)
(* everything has to be paid for.                                          *)
LEMMA ReturnKeeps ==
    ASSUME IInv, TypeInv', NEW w \in Workers, NEW told, Return(w, told),
           UNCHANGED <<base, starting, dead>>, faults <= faults',
           asked = w => Load <= faults'
    PROVE  LoadInv'
<1>1. /\ TypeInv /\ LoadInv /\ pc \in [Workers -> Labels]
      /\ faults \in Nat /\ faults' \in Nat /\ Nobody \notin Workers
  BY ProcessAssumption DEF IInv, TypeInv
<1>2. /\ pc'[w] = "idle" /\ \A v \in Workers : v # w => pc'[v] = pc[v]
      /\ asked = w => asked' = Nobody
      /\ asked # w => asked' = asked
  BY <1>1 DEF Return
<1>3. Fresh' \subseteq Fresh
  BY <1>1, <1>2 DEF Fresh, Before, TypeInv
<1>4. IsFiniteSet(Fresh') /\ Cardinality(Fresh') <= Cardinality(Fresh)
  BY <1>1, <1>3, FreshFacts DEF LoadInv
<1>5. asked # w /\ Failing' => Failing
  BY <1>1, <1>2 DEF Failing, Served, DeadMounted, After
<1>6. /\ Len(base) \in Nat /\ Cardinality(starting) \in Nat
      /\ Cardinality(Fresh) \in Nat /\ Cardinality(Fresh') \in Nat
  BY <1>1, <1>4, LoadParts, FS_CardinalityType DEF LoadInv
<1>7. Load' <= Load /\ Load \in Nat /\ Load' \in Nat
  BY <1>4, <1>6 DEF Load
<1>8. Cardinality(Fresh') <= faults' /\ Load' <= faults' + 1
  <2>1. Cardinality(Fresh) <= faults /\ Load <= faults + 1
    BY <1>1 DEF LoadInv
  <2>2. Cardinality(Fresh') <= faults'
    BY <1>1, <1>4, <1>6, <2>1
  <2>3. Load' <= faults' + 1
    <3>1. \A m, n, f, g \in Nat : n <= m /\ m <= f + 1 /\ f <= g => n <= g + 1
      OBVIOUS
    <3>2. QED
      BY <1>1, <1>7, <2>1, <3>1, Zenon
  <2>4. QED
    BY <2>2, <2>3
<1>9. Failing' => Load' <= faults'
  <2>1. CASE asked = w
    BY <1>1, <1>7, <2>1
  <2>2. CASE asked # w
    BY <1>1, <1>5, <1>7, <2>2 DEF LoadInv
  <2>3. QED
    BY <2>1, <2>2
<1>10. starting' \cap dead' = {}
  BY <1>1 DEF LoadInv
<1>11. QED
  BY <1>4, <1>8, <1>9, <1>10 DEF LoadInv

(* A call that goes on with the same mounts. *)
LEMMA ContinueKeeps ==
    ASSUME IInv, NEW w \in Workers, NEW label, Goto(w, label),
           UNCHANGED <<base, starting, dead, asked, faults>>,
           \/ pc[w] \in Before /\ label \in Before
           \/ pc[w] = "j_poll" /\ label = "c_vol" /\ base # <<>>
           \/ pc[w] = "c_vol" /\ label = "c_umount"
    PROVE  LoadInv'
<1>1. LoadInv /\ pc \in [Workers -> Labels]
  BY DEF IInv, TypeInv
<1>2. pc'[w] = label /\ \A v \in Workers : v # w => pc'[v] = pc[v]
  BY <1>1 DEF Goto
<1>3. Fresh' = Fresh
  <2>1. pc'[w] \in Before <=> pc[w] \in Before
    BY <1>2 DEF Before
  <2>2. QED
    BY <1>2, <2>1 DEF Fresh
<1>4. Served' <=> Served
  <2>1. pc'[w] \in After <=> pc[w] \in After
    BY <1>2 DEF After, Before
  <2>2. QED
    BY <1>2, <2>1 DEF Served
<1>5. Failing' => Failing
  <2>1. base = <<>> /\ pc'[w] \in {"c_vol", "c_umount"} => pc[w] \in {"c_vol", "c_umount"}
    BY <1>2 DEF Before
  <2>2. QED
    BY <1>2, <1>4, <2>1 DEF Failing, DeadMounted
<1>6. QED
  BY <1>1, <1>3, <1>5 DEF LoadInv, Load

(* A process is started, on a mount path that is free or was freed. *)
LEMMA StartKeeps ==
    ASSUME IInv, NEW w \in Workers, pc[w] \in Before, NEW s,
           Start(w, InUse, s), UNCHANGED <<asked, faults>>,
           \/ base = <<>> /\ s = base
           \/ Len(s) = Len(base) - 1
    PROVE  LoadInv'
<1>1. /\ TypeInv /\ LoadInv /\ pc \in [Workers -> Labels] /\ faults \in Nat
  BY DEF IInv, TypeInv
<1>2. /\ pc'[w] = "j_poll" /\ \A v \in Workers : v # w => pc'[v] = pc[v]
      /\ base' = s
  BY <1>1 DEF Start, Goto
<1>3. PICK d \in Devs \ InUse : starting' = starting \cup {d} /\ dead' = dead \cap InUse
  BY DEF Start
<1>4. d \notin starting
  BY <1>3 DEF InUse
<1>p. /\ Len(base) \in Nat /\ IsFiniteSet(starting)
      /\ Cardinality(starting) \in Nat /\ Cardinality(Fresh) \in Nat
  BY <1>1, LoadParts DEF LoadInv
<1>5. Cardinality(starting') = Cardinality(starting) + 1
  BY <1>3, <1>4, <1>p, FS_AddElement
<1>6. starting' \cap dead' = {}
  BY <1>1, <1>3 DEF LoadInv
<1>7. Fresh' \subseteq Fresh \ {w}
  BY <1>2 DEF Fresh, Before
<1>8. /\ IsFiniteSet(Fresh') /\ Cardinality(Fresh') \in Nat
      /\ Cardinality(Fresh') <= Cardinality(Fresh)
      /\ asked # w => Cardinality(Fresh') <= Cardinality(Fresh) - 1
  <2>1. IsFiniteSet(Fresh') /\ Cardinality(Fresh') <= Cardinality(Fresh)
    BY <1>1, <1>7, FreshFacts DEF LoadInv
  <2>2. asked # w => w \in Fresh
    BY DEF Fresh
  <2>3. asked # w => Cardinality(Fresh') <= Cardinality(Fresh) - 1
    BY <1>1, <1>7, <2>2, FreshFacts DEF LoadInv
  <2>4. QED
    BY <2>1, <2>3, FS_CardinalityType
<1>9. CASE asked = w
  <2>1. ~Served
    BY <1>9 DEF Served, Before, After
  <2>2. Load <= faults
    BY <1>1, <2>1 DEF LoadInv, Failing
  <2>3. CASE base = <<>> /\ s = base
    <3>1. ~Failing'
      BY <1>2, <1>9, <2>3 DEF Failing, Served, DeadMounted, After
    <3>2. Load' <= faults + 1
      BY <1>1, <1>2, <1>5, <1>8, <1>p, <2>2, <2>3 DEF Load
    <3>3. QED
      BY <1>1, <1>6, <1>8, <1>p, <3>1, <3>2 DEF LoadInv
  <2>4. CASE Len(s) = Len(base) - 1
    <3>1. Load' <= faults /\ Load' \in Int
      BY <1>1, <1>2, <1>5, <1>8, <1>p, <2>2, <2>4 DEF Load
    <3>2. QED
      BY <1>1, <1>6, <1>8, <1>p, <3>1 DEF LoadInv
  <2>5. QED
    BY <2>3, <2>4
<1>10. CASE asked # w
  <2>1. CASE base = <<>> /\ s = base
    <3>1. Failing' => Failing
      BY <1>2, <1>10, <2>1 DEF Failing, Served, DeadMounted, After
    <3>2. Load' <= Load /\ Load \in Int /\ Load' \in Int
      BY <1>2, <1>5, <1>8, <1>10, <1>p, <2>1 DEF Load
    <3>3. QED
      BY <1>1, <1>6, <1>8, <1>p, <3>1, <3>2 DEF LoadInv
  <2>2. CASE Len(s) = Len(base) - 1
    <3>1. Load' <= faults /\ Load' \in Int
      BY <1>1, <1>2, <1>5, <1>8, <1>10, <1>p, <2>2 DEF Load, LoadInv
    <3>2. QED
      BY <1>1, <1>6, <1>8, <1>p, <3>1 DEF LoadInv
  <2>3. QED
    BY <2>1, <2>2
<1>11. QED
  BY <1>9, <1>10

(* What a call that finds a dead client sees is mounted. *)
LEMMA SeenCorrupt ==
    ASSUME TypeInv, Seen = "corrupt" PROVE DeadMounted
<1>1. base # <<>> /\ Last(base) \in dead
  BY DEF Seen
<1>2. Len(base) \in Nat \ {0} /\ DOMAIN base = 1..Len(base)
  BY <1>1, EmptySeq, LenProperties DEF TypeInv, TypeOK
<1>3. Len(base) \in DOMAIN base
  BY <1>2
<1>4. QED
  BY <1>1, <1>3 DEF DeadMounted, Last

LEMMA InitLoad == Init => LoadInv
<1> SUFFICES ASSUME Init PROVE LoadInv
  OBVIOUS
<1>1. /\ Fresh = {} /\ base = <<>> /\ starting = {} /\ dead = {} /\ faults = 0
  BY DEF Init, ProcessInit, Fresh, Before
<1>2. Len(base) = 0 /\ Cardinality(Fresh) = 0 /\ Cardinality(starting) = 0
  BY <1>1, FS_EmptySet
<1>3. Load = 0
  BY <1>2 DEF Load
<1>4. QED
  BY <1>1, <1>2, <1>3, FS_EmptySet DEF LoadInv

LEMMA NextLoad == IInv /\ [Next]_vars => LoadInv'
<1> SUFFICES ASSUME IInv, [Next]_vars PROVE LoadInv'
  OBVIOUS
<1>0. TypeInv /\ TypeInv' /\ LoadInv
  BY NextType DEF IInv
<1>t. /\ base \in Seq(Devs)
      /\ pc \in [Workers -> Labels]
      /\ asked \in Workers \cup {Nobody} /\ Nobody \notin Workers
      /\ faults \in Nat /\ faults' \in Nat
      /\ \A w \in Workers : asked = w => pc[w] # "idle"
      /\ Len(base) \in Nat /\ IsFiniteSet(starting) /\ IsFiniteSet(Fresh)
      /\ Cardinality(starting) \in Nat /\ Cardinality(Fresh) \in Nat
  BY <1>0, LoadParts, ProcessAssumption DEF TypeInv, TypeOK, LoadInv
<1>l. Load \in Nat /\ Load = Len(base) + Cardinality(starting) + Cardinality(Fresh)
  BY <1>t DEF Load
<1>b. ASSUME NEW w \in Workers, pc[w] \in Before, Fail(w),
             UNCHANGED <<mountVars, faults>>
      PROVE  LoadInv'
  <2>1. asked = w => ~Served
    BY <1>b DEF Served, Before, After
  <2>2. asked = w => Load <= faults
    BY <1>0, <2>1 DEF LoadInv, Failing
  <2>3. QED
    BY <1>0, <1>t, <1>b, <2>2, ReturnKeeps DEF Fail, mountVars
<1>1. ASSUME NEW w \in Workers, GetSettings(w) PROVE LoadInv'
  <2>1. pc[w] \in Before /\ "j_mount" \in Before /\ UNCHANGED <<mountVars, faults>>
    BY <1>1 DEF GetSettings, Before
  <2>2. CASE Fail(w)
    BY <1>b, <2>1, <2>2
  <2>3. CASE Continue(w, "j_mount")
    BY <2>1, <2>3, ContinueKeeps DEF Continue, mountVars
  <2>4. QED
    BY <1>1, <2>2, <2>3 DEF GetSettings
<1>2. ASSUME NEW w \in Workers, VolMount(w) PROVE LoadInv'
  <2>0. /\ pc[w] \in Before /\ "j_umount" \in Before /\ faults' = faults
        /\ pc'[w] # "idle" => asked' = asked
    BY <1>2 DEF VolMount, JMount, Before
  <2>1. CASE Fail(w) /\ UNCHANGED mountVars
    BY <1>b, <2>0, <2>1
  <2>2. CASE Goto(w, "j_umount") /\ UNCHANGED mountVars
    <3>1. pc'[w] = "j_umount"
      BY <1>t, <2>2 DEF Goto
    <3>2. QED
      BY <2>0, <2>2, <3>1, ContinueKeeps DEF mountVars
  <2>3. CASE Seen = "local" /\ Start(w, InUse, base)
    <3>1. pc'[w] = "j_poll"
      BY <1>t, <2>3 DEF Start, Goto
    <3>2. base = <<>>
      BY <2>3 DEF Seen
    <3>3. QED
      BY <2>0, <2>3, <3>1, <3>2, StartKeeps
  <2>4. QED
    BY <1>2, <2>1, <2>2, <2>3 DEF VolMount, JMount
<1>3. ASSUME NEW w \in Workers, VolRemount(w) PROVE LoadInv'
  <2>0. /\ pc[w] \in Before /\ faults' = faults
        /\ pc'[w] # "idle" => asked' = asked
    BY <1>3 DEF VolRemount, JUnmount, Before
  <2>1. CASE Fail(w) /\ UNCHANGED mountVars
    BY <1>b, <2>0, <2>1
  <2>2. CASE base # <<>> /\ Start(w, InUse, Pop(base))
    <3>1. pc'[w] = "j_poll"
      BY <1>t, <2>2 DEF Start, Goto
    <3>2. Len(Pop(base)) = Len(base) - 1
      BY <1>t, <2>2, PopType
    <3>3. QED
      BY <2>0, <2>2, <3>1, <3>2, StartKeeps
  <2>3. QED
    BY <1>3, <2>1, <2>2 DEF VolRemount, JUnmount
<1>4. ASSUME NEW w \in Workers, VolPoll(w) PROVE LoadInv'
  <2>0. pc[w] = "j_poll" /\ UNCHANGED mountVars /\ faults <= faults'
    BY <1>t, <1>4 DEF VolPoll, JPoll, OneShot
  <2>1. CASE Seen = "juicefs" /\ Goto(w, "c_vol") /\ UNCHANGED faults
    <3>1. pc'[w] = "c_vol"
      BY <1>t, <2>1 DEF Goto
    <3>2. asked' = asked /\ base # <<>>
      BY <1>4, <2>1, <3>1 DEF VolPoll, Seen
    <3>3. QED
      BY <2>0, <2>1, <3>2, ContinueKeeps DEF mountVars
  <2>2. ASSUME Fail(w), Load <= faults' PROVE LoadInv'
    BY <1>0, <2>0, <2>2, ReturnKeeps DEF Fail, mountVars
  <2>3. CASE Seen = "corrupt" /\ Fail(w) /\ UNCHANGED faults
    <3>1. Load <= faults
      BY <1>0, <2>3, SeenCorrupt DEF LoadInv, Failing
    <3>2. QED
      BY <2>2, <2>3, <3>1
  <2>4. CASE Seen = "local" /\ starting = {} /\ Fail(w) /\ UNCHANGED faults
    <3>1. base = <<>>
      BY <2>4 DEF Seen
    <3>2. Len(base) = 0 /\ Cardinality(starting) = 0
      BY <2>4, <3>1, FS_EmptySet
    <3>3. Load <= faults
      BY <1>0, <1>t, <1>l, <3>2 DEF LoadInv
    <3>4. QED
      BY <2>2, <2>4, <3>3
  <2>5. CASE Fail(w) /\ OneShot("slow")
    <3>1. Load <= faults'
      BY <1>0, <1>t, <2>5 DEF LoadInv, OneShot
    <3>2. QED
      BY <2>2, <2>5, <3>1
  <2>6. QED
    BY <1>4, <2>1, <2>3, <2>4, <2>5 DEF VolPoll, JPoll
<1>5. ASSUME NEW w \in Workers, CreateVol(w) \/ DeleteVol(w) PROVE LoadInv'
  <2>0. pc[w] = "c_vol" /\ UNCHANGED <<base, starting, dead, faults>>
    BY <1>5 DEF CreateVol, DeleteVol
  <2>1. CASE Continue(w, "c_umount")
    BY <2>0, <2>1, ContinueKeeps DEF Continue
  <2>2. CASE Seen = "corrupt" /\ Fail(w)
    <3>1. Load <= faults
      BY <1>0, <2>2, SeenCorrupt DEF LoadInv, Failing
    <3>2. QED
      BY <1>0, <1>t, <2>0, <2>2, <3>1, ReturnKeeps DEF Fail
  <2>3. QED
    BY <1>5, <2>1, <2>2 DEF CreateVol, DeleteVol
<1>6. ASSUME NEW w \in Workers, VolUnmount(w) PROVE LoadInv'
  <2>0. pc[w] = "c_umount" /\ UNCHANGED <<starting, dead, faults>>
    BY <1>6 DEF VolUnmount
  <2>1. CASE base = <<>>
    <3>1. base' = base /\ Fail(w)
      BY <1>6, <2>1 DEF VolUnmount
    <3>2. asked = w => Load <= faults
      BY <1>0, <2>0, <2>1 DEF LoadInv, Failing
    <3>3. QED
      BY <1>0, <1>t, <2>0, <3>1, <3>2, ReturnKeeps DEF Fail
  <2>2. CASE base # <<>>
    <3>1. base' = Pop(base) /\ Len(Pop(base)) = Len(base) - 1
      BY <1>t, <1>6, <2>2, PopType DEF VolUnmount
    <3>2. /\ pc'[w] = "idle" /\ \A v \in Workers : v # w => pc'[v] = pc[v]
          /\ asked = w => asked' = Nobody
          /\ asked # w => asked' = asked
      BY <1>t, <1>6, <2>2 DEF VolUnmount, Succeed, Return
    <3>3. Fresh' \subseteq Fresh
      BY <1>t, <3>2 DEF Fresh, Before
    <3>4. /\ IsFiniteSet(Fresh') /\ Cardinality(Fresh') <= Cardinality(Fresh)
          /\ Cardinality(Fresh') \in Nat
      BY <1>t, <3>3, FreshFacts, FS_CardinalityType
    <3>5. Load' <= faults /\ Load' \in Int
      BY <1>0, <1>t, <1>l, <2>0, <3>1, <3>4 DEF LoadInv, Load
    <3>6. QED
      BY <1>0, <1>t, <2>0, <3>4, <3>5 DEF LoadInv
  <2>3. QED
    BY <2>1, <2>2
<1>7. ASSUME NEW w \in Workers, Ask(w) PROVE LoadInv'
  <2>1. /\ asked = Nobody /\ asked' = w /\ pc'[w] = "c_format"
        /\ \A v \in Workers : v # w => pc'[v] = pc[v]
        /\ UNCHANGED <<base, starting, dead, faults>>
    BY <1>t, <1>7 DEF Ask, Goto, mountVars
  <2>2. Load <= faults
    BY <1>0, <1>t, <2>1 DEF LoadInv, Failing, Served
  <2>3. Fresh' \subseteq Fresh
    BY <1>t, <2>1 DEF Fresh
  <2>4. /\ IsFiniteSet(Fresh') /\ Cardinality(Fresh') <= Cardinality(Fresh)
        /\ Cardinality(Fresh') \in Nat
    BY <1>t, <2>3, FreshFacts, FS_CardinalityType
  <2>5. Load' <= faults /\ Load' \in Int
    BY <1>t, <1>l, <2>1, <2>2, <2>4 DEF Load
  <2>6. QED
    BY <1>0, <1>t, <2>1, <2>4, <2>5 DEF LoadInv
<1>8. ASSUME NEW d \in Devs, Process(d) PROVE LoadInv'
  <2>0. UNCHANGED <<pc, asked>> /\ Fresh' = Fresh /\ (Served' <=> Served)
    BY <1>8 DEF Process, Fresh, Served
  <2>1. CASE ProcessMounts(d)
    <3>1. /\ d \in starting /\ base' = Append(base, d) /\ starting' = starting \ {d}
          /\ UNCHANGED <<dead, faults>>
      BY <2>1 DEF ProcessMounts
    <3>2. /\ Len(base') = Len(base) + 1
          /\ Cardinality(starting') = Cardinality(starting) - 1
      BY <1>t, <3>1, FS_RemoveElement, AppendProperties
    <3>3. Load' = Load
      BY <1>t, <1>l, <2>0, <3>2 DEF Load
    <3>4. DeadMounted' => DeadMounted
      <4>1. d \notin dead
        BY <1>0, <3>1 DEF LoadInv
      <4>2. ASSUME NEW i \in DOMAIN base', base'[i] \in dead
            PROVE  i \in DOMAIN base /\ base[i] \in dead
        <5>1. /\ DOMAIN base = 1..Len(base)
              /\ DOMAIN base' = 1..(Len(base) + 1)
              /\ base'[Len(base) + 1] = d
              /\ \A k \in 1..Len(base) : base'[k] = base[k]
          BY <1>t, <3>1, <3>2, AppendProperties, LenProperties
        <5>2. i # Len(base) + 1
          BY <4>1, <4>2, <5>1
        <5>3. i \in 1..Len(base)
          BY <1>t, <4>2, <5>1, <5>2
        <5>4. QED
          BY <4>2, <5>1, <5>3
      <4>3. QED
        BY <3>1, <4>2 DEF DeadMounted
    <3>5. base' # <<>>
      BY <1>t, <3>1, <3>2
    <3>6. Failing' => Failing
      BY <2>0, <3>4, <3>5 DEF Failing
    <3>7. starting' \cap dead' = {}
      BY <1>0, <3>1 DEF LoadInv
    <3>8. QED
      BY <1>0, <2>0, <3>1, <3>3, <3>6, <3>7 DEF LoadInv
  <2>2. CASE ProcessDies(d)
    <3>1. /\ faults' = faults + 1 /\ d \notin starting /\ dead' = dead \cup {d}
          /\ UNCHANGED <<base, starting>>
      BY <2>2 DEF ProcessDies, OneShot
    <3>2. Load' = Load
      BY <2>0, <3>1 DEF Load
    <3>3. starting' \cap dead' = {}
      BY <1>0, <3>1 DEF LoadInv
    <3>4. QED
      BY <1>0, <1>t, <1>l, <2>0, <3>1, <3>2, <3>3 DEF LoadInv
  <2>3. QED
    BY <1>8, <2>1, <2>2 DEF Process
<1>9. ASSUME UNCHANGED <<base, starting, dead, pc, asked, faults>> PROVE LoadInv'
  <2>1. Fresh' = Fresh /\ (Failing' <=> Failing)
    BY <1>9 DEF Fresh, Failing, Served, DeadMounted
  <2>2. QED
    BY <1>0, <1>9, <2>1 DEF LoadInv, Load
<1>10. CASE Claim \/ UNCHANGED vars
  BY <1>9, <1>10 DEF Claim, vars, mountVars
<1>11. CASE CallTimeout
  <2>1. /\ faults' = faults + 1 /\ asked \in Workers /\ asked' = Nobody
        /\ UNCHANGED <<base, starting, dead, pc>>
    BY <1>t, <1>11 DEF CallTimeout, OneShot, mountVars
  <2>2. Fresh' \subseteq Fresh \cup {asked}
    BY <1>t, <2>1 DEF Fresh
  <2>3. /\ IsFiniteSet(Fresh') /\ Cardinality(Fresh') <= Cardinality(Fresh) + 1
        /\ Cardinality(Fresh') \in Nat
    BY <1>t, <2>2, FreshFacts, FS_CardinalityType
  <2>4. Load' <= faults'
    <3>1. CASE Served
      <4>1. Fresh' \subseteq Fresh
        BY <1>t, <2>1, <3>1 DEF Fresh, Served, Before, After
      <4>2. Cardinality(Fresh') <= Cardinality(Fresh)
        BY <1>t, <4>1, FreshFacts
      <4>3. QED
        BY <1>0, <1>t, <1>l, <2>1, <2>3, <4>2 DEF LoadInv, Load
    <3>2. CASE ~Served
      BY <1>0, <1>t, <1>l, <2>1, <2>3, <3>2 DEF LoadInv, Load, Failing
    <3>3. QED
      BY <3>1, <3>2
  <2>5. Load' \in Int
    BY <1>t, <2>1, <2>3 DEF Load
  <2>6. QED
    BY <1>0, <1>t, <2>1, <2>3, <2>4, <2>5 DEF LoadInv
<1>12. CASE Crash
  <2>1. /\ faults' = faults + 1 /\ base' = <<>> /\ starting' = {} /\ dead' = {}
        /\ Fresh' = {}
    BY <1>12 DEF Crash, OneShot, Fresh, Before
  <2>2. Len(base') = 0 /\ Cardinality(Fresh') = 0 /\ Cardinality(starting') = 0
    BY <2>1, FS_EmptySet
  <2>3. Load' = 0
    BY <2>2 DEF Load
  <2>4. QED
    BY <1>t, <2>1, <2>2, <2>3, FS_EmptySet DEF LoadInv
<1>13. QED
  BY <1>1, <1>2, <1>3, <1>4, <1>5, <1>6, <1>7, <1>8, <1>10, <1>11, <1>12
     DEF Next, Call

(* However calls overlap, every mount that is left when no call runs has   *)
(* a fault of its own.                                                     *)
THEOREM MountsLeftBoundedHolds == Spec => []MountsLeftBounded
<1>1. Init => IInv
  BY InitType, InitLoad DEF IInv
<1>2. IInv /\ [Next]_vars => IInv'
  BY NextType, NextLoad DEF IInv
<1>3. ASSUME IInv, \A w \in Workers : pc[w] = "idle"
      PROVE  Len(base) + Cardinality(starting) <= faults
  <2>1. Failing
    BY <1>3 DEF Failing, Served, After
  <2>2. /\ Len(base) \in Nat /\ Cardinality(starting) \in Nat
        /\ Cardinality(Fresh) \in Nat /\ faults \in Nat
    BY <1>3, LoadParts DEF IInv, LoadInv, TypeInv
  <2>3. Load <= faults
    BY <1>3, <2>1 DEF IInv, LoadInv
  <2>4. QED
    BY <2>2, <2>3 DEF Load
<1>4. IInv => MountsLeftBounded
  BY <1>3 DEF MountsLeftBounded
<1>5. QED
  BY <1>1, <1>2, <1>4, PTL DEF Spec

=============================================================================
