-------------------------- MODULE ProcessNodeProofs -------------------------
(***************************************************************************)
(* Proofs about ProcessNode, for every set of targets, every number of     *)
(* threads, devices and faults, and every interleaving of the calls: the   *)
(* types, and that every mount an unpublished target still has was paid    *)
(* for by a fault.                                                         *)
(***************************************************************************)
EXTENDS ProcessNode, SequenceTheorems, FiniteSetTheorems, TLAPS

Publishing == {"n_start", "j_mount", "j_umount", "j_poll", "n_vol", "n_bind"}
Unpublishing == {"u_check", "u_refs", "u_target", "u_ref"}
Labels == {"idle"} \cup Publishing \cup Unpublishing

(* The types, with those of the labels, of kubelet's calls and of faults; *)
(* a call that runs has a target.                                         *)
TypeInv ==
    /\ TypeOK
    /\ pc \in [Workers -> Labels]
    /\ asked \in [Targets -> Workers \cup {Nobody}]
    /\ refs \in [Workers -> SUBSET (Mounts \X Nat)]
    /\ faults \in Nat
    /\ \A w \in Workers : pc[w] # "idle" => target[w] \in Targets

(* The call kubelet waits for runs, for this target, and is what kubelet   *)
(* wants of it.                                                            *)
AskedInv ==
    \A t \in Targets : \A w \in Workers : asked[t] = w =>
        /\ target[w] = t
        /\ pc[w] # "idle"
        /\ pc[w] \in Publishing => vstate[t] = "uncertain"
        /\ pc[w] \in Unpublishing => vstate[t] = "unpublishing"

(* The topmost mount of target t is accounted for: kubelet knows of it, or *)
(* asks for its removal and has not been served yet.                       *)
Due(t) ==
    \/ vstate[t] = "published"
    \/ /\ vstate[t] = "unpublishing"
       /\ ~\E w \in Workers : asked[t] = w /\ pc[w] = "u_ref"

(* The mounts of targets that no unpublish has to take off. *)
Surplus ==
    {p \in Targets \X Nat :
        /\ p[2] \in DOMAIN bind[p[1]]
        /\ ~(Due(p[1]) /\ p[2] = Len(bind[p[1]]))}

(* The publishes that run although nobody waits for their answer: each may *)
(* bind one mount more.                                                    *)
Late ==
    {p \in Workers \X {0} :
        pc[p[1]] \in Publishing /\ asked[target[p[1]]] # p[1]}

Debt == Surplus \cup Late

(* Every mount in surplus, and every one to come, has a fault of its own. *)
DebtInv == IsFiniteSet(Debt) /\ Cardinality(Debt) <= faults

IInv == TypeInv /\ AskedInv /\ DebtInv

-----------------------------------------------------------------------------
(* The types *)

(* A stack without its topmost mount. *)
LEMMA PopFacts ==
    ASSUME NEW S, NEW s \in Seq(S), s # <<>>
    PROVE  /\ Len(s) \in Nat \ {0}
           /\ Last(s) = s[Len(s)] /\ Last(s) \in S
           /\ Pop(s) \in Seq(S)
           /\ DOMAIN Pop(s) = 1..(Len(s) - 1)
           /\ \A i \in 1..(Len(s) - 1) : Pop(s)[i] = s[i]
<1>1. Len(s) \in Nat \ {0}
  BY EmptySeq, LenProperties
<1>2. \A i \in 1..Len(s) : s[i] \in S
  BY <1>1, LenProperties, ElementOfSeq
<1>3. \A i \in 1..(Len(s) - 1) : s[i] \in S
  BY <1>1, <1>2
<1>n. \A k \in Nat \ {0} :
          /\ k - 1 \in Int
          /\ (IF 1 <= k - 1 THEN (k - 1) - 1 + 1 ELSE 0) = k - 1
          /\ (k - 1) - 1 + 1 = k - 1
          /\ \A i \in 1..(k - 1) : 1 + i - 1 = i
  OBVIOUS
<1> DEFINE n == Len(s) - 1
<1>a. /\ n \in Int
      /\ (IF 1 <= n THEN n - 1 + 1 ELSE 0) = n /\ n - 1 + 1 = n
      /\ \A i \in 1..n : 1 + i - 1 = i
  BY <1>1, <1>n
<1>b. \A i \in 1..n : s[i] \in S
  BY <1>3
<1> HIDE DEF n
<1>c. /\ SubSeq(s, 1, n) \in Seq(S)
      /\ Len(SubSeq(s, 1, n)) = IF 1 <= n THEN n - 1 + 1 ELSE 0
      /\ \A i \in 1..(n - 1 + 1) : SubSeq(s, 1, n)[i] = s[1 + i - 1]
  BY <1>a, <1>b, SubSeqProperties
<1>4. /\ Pop(s) \in Seq(S)
      /\ Len(Pop(s)) = Len(s) - 1
      /\ \A i \in 1..(Len(s) - 1) : Pop(s)[i] = s[i]
  BY <1>a, <1>c, Zenon DEF Pop, n
<1>5. Last(s) = s[Len(s)] /\ Last(s) \in S
  BY <1>1, <1>2 DEF Last
<1>6. DOMAIN Pop(s) = 1..(Len(s) - 1)
  BY <1>4, LenProperties
<1>7. QED
  BY <1>1, <1>4, <1>5, <1>6

(* The answer of a call changes only what kubelet and the thread know. *)
LEMMA ReturnType ==
    ASSUME TypeInv, NEW w \in Workers, target[w] \in Targets,
           NEW answer \in {"uncertain", "published", "unpublishing", "unpublished"},
           Return(w, answer)
    PROVE  /\ pc' \in [Workers -> Labels]
           /\ target' \in [Workers -> Targets \cup {Nobody}]
           /\ refs' \in [Workers -> SUBSET (Mounts \X Nat)]
           /\ asked' \in [Targets -> Workers \cup {Nobody}]
           /\ vstate' \in [Targets -> {"none", "uncertain", "published",
                                       "unpublishing", "unpublished"}]
           /\ \A v \in Workers : pc'[v] # "idle" => target'[v] \in Targets
BY DEF TypeInv, TypeOK, Return, Labels

LEMMA InitType == Init => TypeInv
BY DEF Init, ProcessInit, TypeInv, TypeOK, Labels

LEMMA NextType == TypeInv /\ [Next]_vars => TypeInv'
<1> SUFFICES ASSUME TypeInv, [Next]_vars PROVE TypeInv'
  OBVIOUS
<1>0. /\ base \in Seq(Devs) /\ starting \subseteq Devs /\ dead \subseteq Devs
      /\ bind \in [Targets -> Seq(Devs \cup {0})]
      /\ target \in [Workers -> Targets \cup {Nobody}]
      /\ vstate \in [Targets -> {"none", "uncertain", "published",
                                 "unpublishing", "unpublished"}]
      /\ pc \in [Workers -> Labels]
      /\ asked \in [Targets -> Workers \cup {Nobody}]
      /\ refs \in [Workers -> SUBSET (Mounts \X Nat)]
      /\ faults \in Nat
      /\ \A w \in Workers : pc[w] # "idle" => target[w] \in Targets
  BY DEF TypeInv, TypeOK
<1>f. ASSUME NEW w \in Workers, pc[w] # "idle", Fail(w),
             UNCHANGED <<mountVars, bind>>, faults' \in Nat
      PROVE  TypeInv'
  BY <1>0, <1>f, ReturnType DEF Fail, mountVars, TypeInv, TypeOK
<1>s. ASSUME NEW w \in Workers, pc[w] # "idle", NEW s \in Seq(Devs),
             Start(w, InUse, s),
             UNCHANGED <<bind, faults, target, refs, asked, vstate>>
      PROVE  TypeInv'
  BY <1>0, <1>s DEF Start, Goto, TypeInv, TypeOK, Labels, Publishing
<1>1. ASSUME NEW w \in Workers, PublishMount(w) PROVE TypeInv'
  <2>1. CASE Fail(w) /\ UNCHANGED mountVars
    BY <1>0, <1>1, <1>f, <2>1 DEF PublishMount, JMount
  <2>2. CASE Goto(w, "j_umount") /\ UNCHANGED mountVars
    <3>1. pc'[w] = "j_umount" /\ pc[w] # "idle"
      BY <1>0, <1>1, <2>2 DEF PublishMount, JMount, Goto
    <3>2. UNCHANGED <<bind, faults, target, refs, asked, vstate>>
      BY <1>1, <3>1 DEF PublishMount
    <3>3. QED
      BY <1>0, <2>2, <3>1, <3>2
         DEF Goto, mountVars, TypeInv, TypeOK, Labels, Publishing
  <2>3. CASE Start(w, InUse, base)
    <3>1. pc'[w] = "j_poll" /\ pc[w] # "idle"
      BY <1>0, <1>1, <2>3 DEF PublishMount, JMount, Start, Goto
    <3>2. UNCHANGED <<bind, faults, target, refs, asked, vstate>>
      BY <1>1, <3>1 DEF PublishMount
    <3>3. QED
      BY <1>0, <1>s, <2>3, <3>1, <3>2
  <2>4. QED
    BY <1>1, <2>1, <2>2, <2>3 DEF PublishMount, JMount
<1>1a. ASSUME NEW w \in Workers, PublishUnmount(w) PROVE TypeInv'
  <2>1. CASE Fail(w) /\ UNCHANGED mountVars
    BY <1>0, <1>1a, <1>f, <2>1 DEF PublishUnmount, JUnmount
  <2>2. CASE base # <<>> /\ Start(w, InUse, Pop(base))
    <3>1. pc'[w] = "j_poll" /\ pc[w] # "idle"
      BY <1>0, <1>1a, <2>2 DEF PublishUnmount, JUnmount, Start, Goto
    <3>2. UNCHANGED <<bind, faults, target, refs, asked, vstate>>
      BY <1>1a, <3>1 DEF PublishUnmount
    <3>3. Pop(base) \in Seq(Devs)
      BY <1>0, <2>2, PopFacts
    <3>4. QED
      BY <1>s, <2>2, <3>1, <3>2, <3>3
  <2>3. QED
    BY <1>1a, <2>1, <2>2 DEF PublishUnmount, JUnmount
<1>1b. ASSUME NEW w \in Workers, PublishStart(w) PROVE TypeInv'
  <2>1. /\ UNCHANGED <<mountVars, bind>> /\ faults' \in Nat
        /\ pc[w] # "idle"
    BY <1>0, <1>1b DEF PublishStart, OneShot
  <2>2. CASE Fail(w)
    BY <1>f, <2>1, <2>2
  <2>3. CASE Continue(w, "j_mount")
    BY <1>0, <2>1, <2>3
       DEF Continue, Goto, mountVars, TypeInv, TypeOK, Labels, Publishing
  <2>4. QED
    BY <1>1b, <2>2, <2>3 DEF PublishStart
<1>2. ASSUME NEW w \in Workers, PublishPoll(w) PROVE TypeInv'
  <2>1. UNCHANGED <<mountVars, bind>> /\ faults' \in Nat /\ pc[w] # "idle"
    BY <1>0, <1>2 DEF PublishPoll, JPoll, OneShot
  <2>2. CASE Fail(w)
    BY <1>f, <2>1, <2>2
  <2>3. CASE ~Fail(w)
    <3>1. pc' = [pc EXCEPT ![w] = "n_vol"]
      BY <1>2, <2>3 DEF PublishPoll, JPoll, Goto
    <3>2. pc'[w] = "n_vol"
      BY <1>0, <3>1
    <3>3. UNCHANGED <<target, refs, asked, vstate>>
      BY <1>2, <3>2 DEF PublishPoll
    <3>4. QED
      BY <1>0, <2>1, <3>1, <3>3
         DEF mountVars, TypeInv, TypeOK, Labels, Publishing
  <2>4. QED
    BY <2>2, <2>3
<1>3. ASSUME NEW w \in Workers, CreateVol(w) PROVE TypeInv'
  <2>1. CASE Fail(w) /\ UNCHANGED localDir
    BY <1>0, <1>3, <1>f, <2>1 DEF CreateVol, mountVars
  <2>2. CASE Continue(w, "n_bind")
    BY <1>0, <1>3, <2>2
       DEF CreateVol, Continue, Goto, TypeInv, TypeOK, Labels, Publishing
  <2>3. QED
    BY <1>3, <2>1, <2>2 DEF CreateVol
<1>4. ASSUME NEW w \in Workers, Bind(w) PROVE TypeInv'
  <2>1. CASE Fail(w) /\ UNCHANGED bind
    BY <1>0, <1>4, <1>f, <2>1 DEF Bind
  <2>2. CASE ~(Fail(w) /\ UNCHANGED bind)
    <3> DEFINE x == IF Seen = "local" THEN 0 ELSE Last(base)
    <3>1. /\ Return(w, "published")
          /\ Seen = "juicefs" \/ Seen = "local"
          /\ bind' = [bind EXCEPT ![target[w]] = Append(@, x)]
          /\ UNCHANGED <<mountVars, faults>>
          /\ target[w] \in Targets
      BY <1>0, <1>4, <2>2 DEF Bind
    <3>2. x \in Devs \cup {0}
      <4>1. CASE Seen = "local"
        BY <4>1
      <4>2. CASE Seen # "local"
        <5>1. base # <<>>
          BY <4>2 DEF Seen
        <5>2. QED
          BY <1>0, <4>2, <5>1, PopFacts
      <4>3. QED
        BY <4>1, <4>2
    <3> HIDE DEF x
    <3>3. bind' \in [Targets -> Seq(Devs \cup {0})]
      BY <1>0, <3>1, <3>2
    <3>4. QED
      BY <1>0, <3>1, <3>3, ReturnType DEF mountVars, TypeInv, TypeOK
  <2>3. QED
    BY <2>1, <2>2
<1>5. ASSUME NEW w \in Workers, FindRefs(w) PROVE TypeInv'
  <2>0. /\ target[w] \in Targets
        /\ UNCHANGED <<mountVars, bind, faults, target, asked, vstate>>
    BY <1>0, <1>5 DEF FindRefs
  <2>1. \A m \in Mounts : DOMAIN StackOf(m) \subseteq Nat
    <3>1. /\ DOMAIN base = 1..Len(base) /\ Len(base) \in Nat
          /\ \A t \in Targets : /\ DOMAIN bind[t] = 1..Len(bind[t])
                                /\ Len(bind[t]) \in Nat
      BY <1>0, LenProperties
    <3>2. QED
      BY <3>1 DEF StackOf, Mounts
  <2>2. GetMountDeviceRefs(target[w]) \subseteq Mounts \X Nat
    BY <2>1 DEF GetMountDeviceRefs
  <2>3. refs' \in [Workers -> SUBSET (Mounts \X Nat)]
    BY <1>0, <1>5, <2>2 DEF FindRefs
  <2>4. QED
    BY <1>0, <1>5, <2>0, <2>3
       DEF FindRefs, Goto, mountVars, TypeInv, TypeOK, Labels, Unpublishing
<1>5a. ASSUME NEW w \in Workers, UmountCheck(w) PROVE TypeInv'
  <2>1. target[w] \in Targets /\ UNCHANGED <<mountVars, bind, faults>>
    BY <1>0, <1>5a DEF UmountCheck
  <2>2. CASE Return(w, "unpublished")
    BY <1>0, <2>1, <2>2, ReturnType DEF mountVars, TypeInv, TypeOK
  <2>3. CASE Continue(w, "u_refs")
    BY <1>0, <1>5a, <2>1, <2>3
       DEF UmountCheck, Continue, Goto, mountVars, TypeInv, TypeOK, Labels,
           Unpublishing
  <2>4. QED
    BY <1>5a, <2>2, <2>3 DEF UmountCheck
<1>6. ASSUME NEW w \in Workers, UnmountTarget(w) PROVE TypeInv'
  <2>0. target[w] \in Targets /\ UNCHANGED <<mountVars, faults>>
    BY <1>0, <1>6 DEF UnmountTarget
  <2>1. CASE bind[target[w]] = <<>>
    <3>1. Return(w, "unpublishing") /\ bind' = bind
      BY <1>6, <2>1 DEF UnmountTarget
    <3>2. QED
      BY <1>0, <2>0, <3>1, ReturnType DEF mountVars, TypeInv, TypeOK
  <2>2. CASE bind[target[w]] # <<>>
    <3>1. Pop(bind[target[w]]) \in Seq(Devs \cup {0})
      BY <1>0, <2>0, <2>2, PopFacts
    <3>2. bind' \in [Targets -> Seq(Devs \cup {0})]
      BY <1>0, <1>6, <2>2, <3>1 DEF UnmountTarget
    <3>3. Continue(w, "u_ref")
      BY <1>6, <2>2 DEF UnmountTarget
    <3>4. QED
      BY <1>0, <2>0, <3>2, <3>3
         DEF Continue, Goto, mountVars, TypeInv, TypeOK, Labels, Unpublishing
  <2>3. QED
    BY <2>1, <2>2
<1>7. ASSUME NEW w \in Workers, UnmountRef(w) PROVE TypeInv'
  <2>0. /\ target[w] \in Targets /\ Return(w, "unpublished")
        /\ UNCHANGED <<starting, dead, faults>>
    BY <1>0, <1>7 DEF UnmountRef
  <2>1. base' \in Seq(Devs)
    <3>1. base' = base \/ (base # <<>> /\ base' = Pop(base))
      BY <1>7 DEF UnmountRef
    <3>2. QED
      BY <1>0, <3>1, PopFacts
  <2>2. bind' \in [Targets -> Seq(Devs \cup {0})]
    <3>1. \A t \in Targets :
             bind[t] # <<>> => Pop(bind[t]) \in Seq(Devs \cup {0})
      BY <1>0, PopFacts
    <3>2. QED
      BY <1>0, <1>7, <3>1 DEF UnmountRef
  <2>3. QED
    BY <1>0, <2>0, <2>1, <2>2, ReturnType DEF TypeInv, TypeOK
<1>8. ASSUME NEW w \in Workers, NEW t \in Targets,
             AskPublish(w, t) \/ AskUnpublish(w, t)
      PROVE  TypeInv'
  <2>1. CASE AskPublish(w, t)
    BY <1>0, <2>1
       DEF AskPublish, Ask, Goto, mountVars, TypeInv, TypeOK, Labels,
           Publishing
  <2>2. CASE AskUnpublish(w, t)
    BY <1>0, <2>2
       DEF AskUnpublish, Ask, Goto, mountVars, TypeInv, TypeOK, Labels,
           Unpublishing
  <2>3. QED
    BY <1>8, <2>1, <2>2
<1>9. ASSUME NEW t \in Targets, CallTimeout(t) PROVE TypeInv'
  BY <1>0, <1>9 DEF CallTimeout, OneShot, mountVars, TypeInv, TypeOK
<1>10. ASSUME NEW t \in Targets, Reuse(t) PROVE TypeInv'
  BY <1>0, <1>10 DEF Reuse, mountVars, TypeInv, TypeOK
<1>11. ASSUME NEW d \in Devs, Process(d) PROVE TypeInv'
  <2>1. CASE ProcessMounts(d)
    BY <1>0, <1>11, <2>1 DEF Process, ProcessMounts, TypeInv, TypeOK
  <2>2. CASE ProcessDies(d)
    BY <1>0, <1>11, <2>2 DEF Process, ProcessDies, OneShot, TypeInv, TypeOK
  <2>3. QED
    BY <1>11, <2>1, <2>2 DEF Process
<1>11a. CASE Reboot
  BY <1>0, <1>11a DEF Reboot, TypeInv, TypeOK, Labels
<1>12. CASE UNCHANGED vars
  BY <1>0, <1>12 DEF vars, mountVars, TypeInv, TypeOK
<1>13. QED
  BY <1>1, <1>1a, <1>1b, <1>2, <1>3, <1>4, <1>5, <1>5a, <1>6, <1>7, <1>8,
     <1>9, <1>10, <1>11, <1>11a, <1>12 DEF Next, Call

(* Every variable keeps its type, however many calls run at a time. *)
THEOREM TypeCorrect == Spec => []TypeOK
<1>1. TypeInv => TypeOK
  BY DEF TypeInv
<1>2. QED
  BY InitType, NextType, <1>1, PTL DEF Spec

-----------------------------------------------------------------------------
(* The mounts left behind *)

(* Nothing is owed that was not before. *)
LEMMA DebtShrinks ==
    ASSUME DebtInv, faults \in Nat, faults' \in Nat, faults <= faults',
           Surplus' \subseteq Surplus, Late' \subseteq Late
    PROVE  DebtInv'
<1>1. Debt' \subseteq Debt
  BY DEF Debt
<1>2. IsFiniteSet(Debt') /\ Cardinality(Debt') <= Cardinality(Debt)
  BY <1>1, FS_Subset DEF DebtInv
<1>3. Cardinality(Debt) \in Nat /\ Cardinality(Debt') \in Nat
  BY <1>2, FS_CardinalityType DEF DebtInv
<1>4. QED
  BY <1>2, <1>3 DEF DebtInv

(* A fault makes one more. *)
LEMMA DebtGrows ==
    ASSUME DebtInv, faults \in Nat, faults' = faults + 1, NEW e,
           Debt' \subseteq Debt \cup {e}
    PROVE  DebtInv'
<1> DEFINE S == Debt \cup {e}
<1>1. IsFiniteSet(Debt) /\ Cardinality(Debt) \in Nat
  BY FS_CardinalityType DEF DebtInv
<1>2. /\ IsFiniteSet(S)
      /\ Cardinality(S) = Cardinality(Debt) \/ Cardinality(S) = Cardinality(Debt) + 1
  BY <1>1, FS_AddElement
<1> HIDE DEF S
<1>3. IsFiniteSet(Debt') /\ Cardinality(Debt') <= Cardinality(S)
  BY <1>2, FS_Subset DEF S
<1>4. Cardinality(Debt') \in Nat /\ Cardinality(S) \in Nat
  BY <1>2, <1>3, FS_CardinalityType
<1>5. QED
  BY <1>1, <1>2, <1>3, <1>4 DEF DebtInv

(* The mount that was to come is there. *)
LEMMA DebtSwaps ==
    ASSUME DebtInv, faults \in Nat, faults' = faults, NEW d \in Debt, NEW e,
           Debt' \subseteq (Debt \ {d}) \cup {e}
    PROVE  DebtInv'
<1> DEFINE R == Debt \ {d}
           S == R \cup {e}
<1>1. IsFiniteSet(Debt) /\ Cardinality(Debt) \in Nat
  BY FS_CardinalityType DEF DebtInv
<1>2. IsFiniteSet(R) /\ Cardinality(R) = Cardinality(Debt) - 1
  BY <1>1, FS_RemoveElement
<1> HIDE DEF R
<1>3. /\ IsFiniteSet(S)
      /\ Cardinality(S) = Cardinality(R) \/ Cardinality(S) = Cardinality(R) + 1
  BY <1>2, FS_AddElement
<1> HIDE DEF S
<1>4. IsFiniteSet(Debt') /\ Cardinality(Debt') <= Cardinality(S)
  BY <1>3, FS_Subset DEF R, S
<1>5. /\ Cardinality(Debt') \in Nat /\ Cardinality(S) \in Nat
      /\ Cardinality(R) \in Nat
  BY <1>2, <1>3, <1>4, FS_CardinalityType
<1>6. QED
  BY <1>1, <1>2, <1>3, <1>4, <1>5 DEF DebtInv

(* A step that binds nothing, and keeps account of what is bound. *)
LEMMA FewerBinds ==
    ASSUME TypeInv,
           \A t \in Targets :
              \/ /\ bind'[t] = bind[t]
                 /\ Due(t) /\ bind[t] # <<>> => Due(t)'
              \/ bind[t] # <<>> /\ bind'[t] = Pop(bind[t])
    PROVE  Surplus' \subseteq Surplus
<1> SUFFICES ASSUME NEW p \in Surplus' PROVE p \in Surplus
  OBVIOUS
<1>1. /\ p \in Targets \X Nat /\ p[1] \in Targets /\ p[2] \in Nat
      /\ p[2] \in DOMAIN bind'[p[1]]
      /\ ~(Due(p[1])' /\ p[2] = Len(bind'[p[1]]))
  BY DEF Surplus
<1> DEFINE t == p[1]
<1>2. bind[t] \in Seq(Devs \cup {0})
  BY <1>1 DEF TypeInv, TypeOK
<1>3. CASE bind'[t] = bind[t] /\ (Due(t) /\ bind[t] # <<>> => Due(t)')
  <2>1. bind[t] # <<>>
    BY <1>1, <1>3
  <2>2. QED
    BY <1>1, <1>3, <2>1 DEF Surplus
<1>4. CASE bind[t] # <<>> /\ bind'[t] = Pop(bind[t])
  <2> DEFINE n == Len(bind[t])
  <2>1. n \in Nat \ {0} /\ DOMAIN bind'[t] = 1..(n - 1) /\ DOMAIN bind[t] = 1..n
    BY <1>2, <1>4, PopFacts, LenProperties
  <2> HIDE DEF n
  <2>2. p[2] \in 1..n /\ p[2] # n
    BY <1>1, <2>1
  <2>3. QED
    BY <1>1, <2>1, <2>2 DEF Surplus, n
<1>5. QED
  BY <1>1, <1>3, <1>4

(* A call that ends owes nothing more, and changes what is due only for    *)
(* its own target, and only if kubelet waits for it.                       *)
LEMMA ReturnKeeps ==
    ASSUME TypeInv, AskedInv, NEW w \in Workers, pc[w] # "idle",
           NEW answer \in {"uncertain", "published", "unpublishing", "unpublished"},
           Return(w, answer)
    PROVE  /\ AskedInv'
           /\ Late' \subseteq Late \ {<<w, 0>>}
           /\ \A t \in Targets : asked[t] # w /\ Due(t) => Due(t)'
           /\ \A t \in Targets : asked[t] = w =>
                 t = target[w] /\ vstate'[t] = answer /\ asked'[t] = Nobody
<1>1. /\ target[w] \in Targets
      /\ target \in [Workers -> Targets \cup {Nobody}]
      /\ vstate \in [Targets -> {"none", "uncertain", "published",
                                 "unpublishing", "unpublished"}]
      /\ pc \in [Workers -> Labels]
      /\ asked \in [Targets -> Workers \cup {Nobody}]
  BY DEF TypeInv, TypeOK
<1>2. /\ pc'[w] = "idle"
      /\ \A v \in Workers : v # w => pc'[v] = pc[v] /\ target'[v] = target[v]
  BY <1>1 DEF Return
<1>3. \A t \in Targets : asked[t] = w => t = target[w]
  BY DEF AskedInv
<1>4. \A t \in Targets : asked[t] # w => asked'[t] = asked[t] /\ vstate'[t] = vstate[t]
  BY <1>1 DEF Return
<1>5. \A t \in Targets : asked[t] = w => vstate'[t] = answer /\ asked'[t] = Nobody
  BY <1>1, <1>3 DEF Return
<1>6. Nobody \notin Workers
  BY ProcessAssumption
<1>7. AskedInv'
  BY <1>2, <1>4, <1>5, <1>6 DEF AskedInv
<1>8. \A t \in Targets : asked[t] # w /\ Due(t) => Due(t)'
  BY <1>2, <1>4 DEF Due
<1>9. ASSUME NEW p \in Late' PROVE p \in Late \ {<<w, 0>>}
  <2>1. /\ p \in Workers \X {0} /\ p[1] \in Workers
        /\ pc'[p[1]] \in Publishing /\ asked'[target'[p[1]]] # p[1]
    BY <1>9 DEF Late
  <2>2. p[1] # w
    BY <1>2, <2>1 DEF Publishing
  <2>3. pc[p[1]] \in Publishing /\ target'[p[1]] = target[p[1]]
    BY <1>2, <2>1, <2>2
  <2>4. target[p[1]] \in Targets
    BY <2>1, <2>3 DEF TypeInv, Publishing
  <2>5. asked[target[p[1]]] # p[1]
    BY <1>4, <2>1, <2>2, <2>3, <2>4
  <2>6. p # <<w, 0>>
    BY <2>2
  <2>7. QED
    BY <2>1, <2>3, <2>5, <2>6 DEF Late
<1>10. QED
  BY <1>3, <1>5, <1>7, <1>8, <1>9

(* A call that goes on owes what it did, unless it has taken the mount off. *)
LEMMA ContinueKeeps ==
    ASSUME TypeInv, AskedInv, NEW w \in Workers, NEW label, Goto(w, label),
           UNCHANGED <<target, asked, vstate>>,
           \/ pc[w] \in Publishing /\ label \in Publishing
           \/ pc[w] \in Unpublishing /\ label \in Unpublishing
    PROVE  /\ AskedInv'
           /\ Late' \subseteq Late
           /\ \A t \in Targets :
                 ~(asked[t] = w /\ label = "u_ref") /\ Due(t) => Due(t)'
<1>1. pc \in [Workers -> Labels]
  BY DEF TypeInv
<1>2. pc'[w] = label /\ \A v \in Workers : v # w => pc'[v] = pc[v]
  BY <1>1 DEF Goto
<1>3. Publishing \cap Unpublishing = {} /\ "idle" \notin Publishing \cup Unpublishing
  BY DEF Publishing, Unpublishing
<1>4. AskedInv'
  <2> SUFFICES ASSUME NEW t \in Targets, NEW v \in Workers, asked[t] = v
               PROVE  /\ target[v] = t
                      /\ pc'[v] # "idle"
                      /\ pc'[v] \in Publishing => vstate[t] = "uncertain"
                      /\ pc'[v] \in Unpublishing => vstate[t] = "unpublishing"
    BY DEF AskedInv
  <2>1. /\ target[v] = t
        /\ pc[v] # "idle"
        /\ pc[v] \in Publishing => vstate[t] = "uncertain"
        /\ pc[v] \in Unpublishing => vstate[t] = "unpublishing"
    BY DEF AskedInv
  <2>2. QED
    BY <1>2, <1>3, <2>1, Zenon
<1>5. Late' \subseteq Late
  BY <1>2, <1>3 DEF Late
<1>6. \A t \in Targets : ~(asked[t] = w /\ label = "u_ref") /\ Due(t) => Due(t)'
  BY <1>2 DEF Due
<1>7. QED
  BY <1>4, <1>5, <1>6

LEMMA InitDebt == Init => AskedInv /\ DebtInv
<1> SUFFICES ASSUME Init PROVE AskedInv /\ DebtInv
  OBVIOUS
<1>1. Debt = {}
  BY DEF Init, Debt, Surplus, Late, Publishing
<1>2. faults = 0
  BY DEF Init, ProcessInit
<1>3. AskedInv
  BY ProcessAssumption DEF Init, AskedInv
<1>4. QED
  BY <1>1, <1>2, <1>3, FS_EmptySet DEF DebtInv

LEMMA NextDebt == IInv /\ [Next]_vars => AskedInv' /\ DebtInv'
<1> SUFFICES ASSUME IInv, [Next]_vars PROVE AskedInv' /\ DebtInv'
  OBVIOUS
<1>0. TypeInv /\ TypeInv' /\ AskedInv /\ DebtInv
  BY NextType DEF IInv
<1>t. /\ bind \in [Targets -> Seq(Devs \cup {0})]
      /\ target \in [Workers -> Targets \cup {Nobody}]
      /\ asked \in [Targets -> Workers \cup {Nobody}]
      /\ vstate \in [Targets -> {"none", "uncertain", "published",
                                 "unpublishing", "unpublished"}]
      /\ pc \in [Workers -> Labels]
      /\ faults \in Nat /\ faults' \in Nat
      /\ Nobody \notin Workers
      /\ \A w \in Workers : pc[w] # "idle" => target[w] \in Targets
  BY <1>0, ProcessAssumption DEF TypeInv, TypeOK
<1>f. ASSUME NEW w \in Workers, pc[w] \in Publishing, Fail(w),
             bind' = bind, faults <= faults'
      PROVE  AskedInv' /\ DebtInv'
  <2>1. pc[w] # "idle" /\ Return(w, "uncertain")
    BY <1>f DEF Publishing, Fail
  <2>2. /\ AskedInv' /\ Late' \subseteq Late
        /\ \A t \in Targets : asked[t] # w /\ Due(t) => Due(t)'
    BY <1>0, <2>1, ReturnKeeps
  <2>3. \A t \in Targets : asked[t] = w => ~Due(t)
    BY <1>0, <1>f DEF AskedInv, Due
  <2>4. Surplus' \subseteq Surplus
    BY <1>0, <1>f, <2>2, <2>3, FewerBinds
  <2>5. QED
    BY <1>0, <1>t, <1>f, <2>2, <2>4, DebtShrinks
<1>c. ASSUME NEW w \in Workers, NEW label, pc'[w] = label, Goto(w, label),
             \/ pc[w] \in Publishing /\ label \in Publishing
             \/ pc[w] \in Unpublishing /\ label \in Unpublishing \ {"u_ref"},
             UNCHANGED <<bind, target, asked, vstate>>, faults <= faults'
      PROVE  AskedInv' /\ DebtInv'
  <2>0. label # "u_ref"
    BY <1>c DEF Publishing
  <2>1. /\ AskedInv' /\ Late' \subseteq Late
        /\ \A t \in Targets : Due(t) => Due(t)'
    BY <1>0, <1>c, <2>0, ContinueKeeps
  <2>2. Surplus' \subseteq Surplus
    BY <1>0, <1>c, <2>1, FewerBinds
  <2>3. QED
    BY <1>0, <1>t, <1>c, <2>1, <2>2, DebtShrinks
<1>1. ASSUME NEW w \in Workers, PublishStart(w) PROVE AskedInv' /\ DebtInv'
  <2>1. /\ pc[w] \in Publishing /\ bind' = bind /\ faults <= faults'
        /\ "j_mount" \in Publishing
    BY <1>t, <1>1 DEF PublishStart, OneShot, Publishing
  <2>2. CASE Fail(w)
    BY <1>f, <2>1, <2>2
  <2>3. CASE Continue(w, "j_mount")
    <3>1. pc'[w] = "j_mount"
      BY <1>t, <2>3 DEF Continue, Goto
    <3>2. QED
      BY <1>c, <2>1, <2>3, <3>1 DEF Continue
  <2>4. QED
    BY <1>1, <2>2, <2>3 DEF PublishStart
<1>2. ASSUME NEW w \in Workers, PublishMount(w) \/ PublishUnmount(w)
      PROVE  AskedInv' /\ DebtInv'
  <2>1. /\ pc[w] \in Publishing /\ bind' = bind /\ faults <= faults'
        /\ "j_poll" \in Publishing /\ "j_umount" \in Publishing
        /\ "idle" \notin Publishing
    BY <1>t, <1>2
       DEF PublishMount, PublishUnmount, JMount, JUnmount, Publishing
  <2>2. CASE Fail(w)
    BY <1>f, <2>1, <2>2
  <2>3. CASE ~Fail(w)
    <3>1. PICK label \in Publishing : Goto(w, label)
      BY <1>2, <2>1, <2>3
         DEF PublishMount, PublishUnmount, JMount, JUnmount, Start
    <3>2. pc'[w] = label
      BY <1>t, <3>1 DEF Goto
    <3>3. UNCHANGED <<target, asked, vstate>>
      BY <1>2, <2>1, <3>2 DEF PublishMount, PublishUnmount
    <3>4. QED
      BY <1>c, <2>1, <3>1, <3>2, <3>3
  <2>4. QED
    BY <2>2, <2>3
<1>3. ASSUME NEW w \in Workers, PublishPoll(w) PROVE AskedInv' /\ DebtInv'
  <2>1. /\ pc[w] \in Publishing /\ bind' = bind /\ faults <= faults'
        /\ "n_vol" \in Publishing
    BY <1>t, <1>3 DEF PublishPoll, JPoll, OneShot, Publishing
  <2>2. CASE Fail(w)
    BY <1>f, <2>1, <2>2
  <2>3. CASE ~Fail(w)
    <3>1. Goto(w, "n_vol")
      BY <1>3, <2>3 DEF PublishPoll, JPoll
    <3>2. pc'[w] = "n_vol"
      BY <1>t, <3>1 DEF Goto
    <3>3. QED
      BY <1>3, <1>c, <2>1, <3>1, <3>2 DEF PublishPoll
  <2>4. QED
    BY <2>2, <2>3
<1>4. ASSUME NEW w \in Workers, CreateVol(w) PROVE AskedInv' /\ DebtInv'
  <2>1. /\ pc[w] \in Publishing /\ bind' = bind /\ faults <= faults'
        /\ "n_bind" \in Publishing
    BY <1>t, <1>4 DEF CreateVol, Publishing
  <2>2. CASE Fail(w)
    BY <1>f, <2>1, <2>2
  <2>3. CASE Continue(w, "n_bind")
    <3>1. pc'[w] = "n_bind"
      BY <1>t, <2>3 DEF Continue, Goto
    <3>2. QED
      BY <1>c, <2>1, <2>3, <3>1 DEF Continue
  <2>4. QED
    BY <1>4, <2>2, <2>3 DEF CreateVol
<1>5. ASSUME NEW w \in Workers, Bind(w) PROVE AskedInv' /\ DebtInv'
  <2>0. pc[w] \in Publishing /\ pc[w] # "idle" /\ faults' = faults
    BY <1>5 DEF Bind, Publishing
  <2>1. CASE Fail(w) /\ UNCHANGED bind
    BY <1>t, <1>f, <2>0, <2>1
  <2>2. CASE ~(Fail(w) /\ UNCHANGED bind)
    <3>0. PICK t \in Targets : t = target[w]
      BY <1>t, <2>0
    <3> DEFINE n == Len(bind[t])
               x == IF Seen = "local" THEN 0 ELSE Last(base)
    <3>1. /\ Return(w, "published")
          /\ bind' = [bind EXCEPT ![t] = Append(@, x)]
      BY <1>5, <2>2, <3>0 DEF Bind
    <3>2. n \in Nat /\ DOMAIN bind[t] = 1..n
      BY <1>t, <3>1, LenProperties
    <3> HIDE DEF x
    <3>3. Len(bind'[t]) = n + 1 /\ DOMAIN bind'[t] = 1..(n + 1)
      BY <1>t, <3>1, <3>2, AppendProperties, LenProperties
    <3>4. \A u \in Targets : u # t => bind'[u] = bind[u]
      BY <1>t, <3>1
    <3>5. /\ AskedInv' /\ Late' \subseteq Late \ {<<w, 0>>}
          /\ \A u \in Targets : asked[u] # w /\ Due(u) => Due(u)'
          /\ \A u \in Targets : asked[u] = w => u = t /\ vstate'[u] = "published"
      BY <1>0, <2>0, <3>0, <3>1, ReturnKeeps
    <3> HIDE DEF n
    <3>6. ASSUME NEW p \in Surplus', p[1] # t PROVE p \in Surplus
      <4>1. /\ p \in Targets \X Nat /\ p[1] \in Targets
            /\ p[2] \in DOMAIN bind'[p[1]]
            /\ ~(Due(p[1])' /\ p[2] = Len(bind'[p[1]]))
        BY <3>6 DEF Surplus
      <4>2. Due(p[1]) => Due(p[1])'
        BY <3>5, <3>6, <4>1
      <4>3. bind'[p[1]] = bind[p[1]]
        BY <3>4, <3>6, <4>1
      <4>4. QED
        BY <4>1, <4>2, <4>3 DEF Surplus
    <3>7. ASSUME NEW p \in Surplus', p[1] = t
          PROVE  /\ p = <<t, p[2]>> /\ p[2] \in 1..(n + 1)
                 /\ Due(t)' => p[2] # n + 1
      <4>1. /\ p = <<p[1], p[2]>>
            /\ p[2] \in DOMAIN bind'[p[1]]
            /\ ~(Due(p[1])' /\ p[2] = Len(bind'[p[1]]))
        BY <3>7 DEF Surplus
      <4>2. ~(Due(t)' /\ p[2] = n + 1)
        BY <3>3, <3>7, <4>1
      <4>3. QED
        BY <3>3, <3>7, <4>1, <4>2
    <3>8. \A i \in 1..n : ~(Due(t) /\ i = n) => <<t, i>> \in Surplus
      BY <3>1, <3>2 DEF Surplus, n
    <3>9. CASE asked[t] = w
      <4>1. ~Due(t)
        BY <1>0, <2>0, <3>9 DEF AskedInv, Due
      <4>2. Due(t)'
        BY <3>5, <3>9 DEF Due
      <4>3. ASSUME NEW p \in Surplus' PROVE p \in Surplus
        <5>1. CASE p[1] = t
          <6>1. p = <<t, p[2]>> /\ p[2] \in 1..(n + 1) /\ p[2] # n + 1
            BY <3>7, <4>2, <4>3, <5>1
          <6>2. p[2] \in 1..n
            BY <3>2, <6>1
          <6>3. QED
            BY <3>8, <4>1, <6>1, <6>2
        <5>2. QED
          BY <3>6, <4>3, <5>1
      <4>4. QED
        BY <1>0, <1>t, <2>0, <3>5, <4>3, DebtShrinks
    <3>10. CASE asked[t] # w
      <4>1. <<w, 0>> \in Debt
        BY <2>0, <3>0, <3>10 DEF Debt, Late
      <4> DEFINE e == IF Due(t) THEN <<t, n>> ELSE <<t, n + 1>>
      <4>2. Due(t) => Due(t)'
        BY <3>1, <3>5, <3>10
      <4>3. ASSUME NEW p \in Surplus', p # e PROVE p \in Surplus
        <5>1. CASE p[1] = t
          <6>1. /\ p = <<t, p[2]>> /\ p[2] \in 1..(n + 1)
                /\ Due(t)' => p[2] # n + 1
            BY <3>7, <4>3, <5>1
          <6>2. p[2] \in 1..n /\ ~(Due(t) /\ p[2] = n)
            <7>1. CASE Due(t)
              <8>1. p[2] # n + 1 /\ p[2] # n
                BY <4>2, <4>3, <6>1, <7>1
              <8>2. QED
                BY <3>2, <6>1, <8>1
            <7>2. CASE ~Due(t)
              <8>1. p[2] # n + 1
                BY <4>3, <6>1, <7>2
              <8>2. QED
                BY <3>2, <6>1, <7>2, <8>1
            <7>3. QED
              BY <7>1, <7>2
          <6>3. QED
            BY <3>8, <6>1, <6>2
        <5>2. QED
          BY <3>6, <4>3, <5>1
      <4>4. <<w, 0>> \notin Surplus
        <5>1. \A u \in Targets : 0 \notin DOMAIN bind[u]
          BY <1>t, LenProperties
        <5>2. QED
          BY <5>1 DEF Surplus
      <4>5. Debt' \subseteq (Debt \ {<<w, 0>>}) \cup {e}
        BY <3>5, <4>3, <4>4 DEF Debt
      <4> HIDE DEF e
      <4>6. QED
        BY <1>0, <1>t, <2>0, <3>5, <4>1, <4>5, DebtSwaps
    <3>11. QED
      BY <3>9, <3>10
  <2>3. QED
    BY <2>1, <2>2
<1>6. ASSUME NEW w \in Workers, UmountCheck(w) PROVE AskedInv' /\ DebtInv'
  <2>0. /\ pc[w] \in Unpublishing /\ pc[w] # "idle"
        /\ "u_refs" \in Unpublishing \ {"u_ref"}
        /\ bind' = bind /\ faults' = faults
    BY <1>6 DEF UmountCheck, Unpublishing
  <2>1. CASE bind[target[w]] = <<>>
    <3>1. Return(w, "unpublished")
      BY <1>6, <2>1 DEF UmountCheck
    <3>2. /\ AskedInv' /\ Late' \subseteq Late
          /\ \A t \in Targets : asked[t] # w /\ Due(t) => Due(t)'
          /\ \A t \in Targets : asked[t] = w => t = target[w]
      BY <1>0, <2>0, <3>1, ReturnKeeps
    <3>3. Surplus' \subseteq Surplus
      BY <1>0, <2>0, <2>1, <3>2, FewerBinds
    <3>4. QED
      BY <1>0, <1>t, <2>0, <3>2, <3>3, DebtShrinks
  <2>2. CASE bind[target[w]] # <<>>
    <3>1. Continue(w, "u_refs")
      BY <1>6, <2>2 DEF UmountCheck
    <3>2. pc'[w] = "u_refs"
      BY <1>t, <3>1 DEF Continue, Goto
    <3>3. QED
      BY <1>c, <1>t, <2>0, <3>1, <3>2 DEF Continue
  <2>3. QED
    BY <2>1, <2>2
<1>7. ASSUME NEW w \in Workers, FindRefs(w) PROVE AskedInv' /\ DebtInv'
  <2>1. /\ pc[w] \in Unpublishing /\ "u_target" \in Unpublishing \ {"u_ref"}
        /\ Goto(w, "u_target")
        /\ UNCHANGED <<bind, target, asked, vstate, faults>>
    BY <1>7 DEF FindRefs, Unpublishing
  <2>2. pc'[w] = "u_target"
    BY <1>t, <2>1 DEF Goto
  <2>3. QED
    BY <1>c, <1>t, <2>1, <2>2
<1>8. ASSUME NEW w \in Workers, UnmountTarget(w) PROVE AskedInv' /\ DebtInv'
  <2>0. /\ pc[w] \in Unpublishing /\ pc[w] # "idle" /\ pc[w] # "u_ref"
        /\ "u_ref" \in Unpublishing /\ target[w] \in Targets
        /\ faults' = faults
    BY <1>t, <1>8 DEF UnmountTarget, Unpublishing
  <2>1. CASE bind[target[w]] = <<>>
    <3>1. Return(w, "unpublishing") /\ bind' = bind
      BY <1>8, <2>1 DEF UnmountTarget
    <3>2. /\ AskedInv' /\ Late' \subseteq Late
          /\ \A t \in Targets : asked[t] # w /\ Due(t) => Due(t)'
          /\ \A t \in Targets : asked[t] = w => t = target[w]
      BY <1>0, <2>0, <3>1, ReturnKeeps
    <3>3. Surplus' \subseteq Surplus
      BY <1>0, <2>1, <3>1, <3>2, FewerBinds
    <3>4. QED
      BY <1>0, <1>t, <2>0, <3>2, <3>3, DebtShrinks
  <2>2. CASE bind[target[w]] # <<>>
    <3>1. /\ bind' = [bind EXCEPT ![target[w]] = Pop(bind[target[w]])]
          /\ Goto(w, "u_ref") /\ UNCHANGED <<target, asked, vstate>>
      BY <1>8, <2>2 DEF UnmountTarget, Continue
    <3>2. /\ AskedInv' /\ Late' \subseteq Late
          /\ \A t \in Targets : asked[t] # w /\ Due(t) => Due(t)'
      BY <1>0, <2>0, <3>1, ContinueKeeps
    <3>3. \A t \in Targets : asked[t] = w => t = target[w]
      BY <1>0 DEF AskedInv
    <3>4. \A t \in Targets :
             /\ t # target[w] => bind'[t] = bind[t]
             /\ t = target[w] => bind'[t] = Pop(bind[t])
      BY <1>t, <2>0, <3>1
    <3>5. Surplus' \subseteq Surplus
      BY <1>0, <2>2, <3>2, <3>3, <3>4, FewerBinds
    <3>6. QED
      BY <1>0, <1>t, <2>0, <3>2, <3>5, DebtShrinks
  <2>3. QED
    BY <2>1, <2>2
<1>9. ASSUME NEW w \in Workers, UnmountRef(w) PROVE AskedInv' /\ DebtInv'
  <2>1. /\ pc[w] = "u_ref" /\ pc[w] # "idle" /\ Return(w, "unpublished")
        /\ faults' = faults
    BY <1>9 DEF UnmountRef
  <2>2. \A t \in Targets :
           bind'[t] = bind[t] \/ (bind[t] # <<>> /\ bind'[t] = Pop(bind[t]))
    BY <1>9 DEF UnmountRef
  <2>3. /\ AskedInv' /\ Late' \subseteq Late
        /\ \A t \in Targets : asked[t] # w /\ Due(t) => Due(t)'
    BY <1>0, <2>1, ReturnKeeps
  <2>4. \A t \in Targets : asked[t] = w => ~Due(t)
    BY <1>0, <2>1 DEF AskedInv, Due, Unpublishing
  <2>5. Surplus' \subseteq Surplus
    BY <1>0, <2>2, <2>3, <2>4, FewerBinds
  <2>6. QED
    BY <1>0, <1>t, <2>1, <2>3, <2>5, DebtShrinks
<1>10. ASSUME NEW w \in Workers, NEW t \in Targets,
              NEW label \in {"n_start", "u_check"},
              NEW next \in {"uncertain", "unpublishing"},
              label = "n_start" => next = "uncertain" /\ vstate[t] # "published"
                                   /\ vstate[t] # "unpublishing",
              label = "u_check" => next = "unpublishing",
              asked[t] = Nobody, pc[w] = "idle",
              asked' = [asked EXCEPT ![t] = w],
              target' = [target EXCEPT ![w] = t],
              Goto(w, label), vstate' = [vstate EXCEPT ![t] = next],
              UNCHANGED <<bind, faults>>
       PROVE  AskedInv' /\ DebtInv'
  <2>1. /\ pc'[w] = label /\ \A v \in Workers : v # w => pc'[v] = pc[v]
        /\ target'[w] = t /\ \A v \in Workers : v # w => target'[v] = target[v]
        /\ asked'[t] = w /\ vstate'[t] = next
        /\ \A u \in Targets : u # t => asked'[u] = asked[u] /\ vstate'[u] = vstate[u]
    BY <1>t, <1>10 DEF Goto
  <2>2. \A u \in Targets : asked[u] # w
    BY <1>0, <1>10 DEF AskedInv
  <2>3. AskedInv'
    <3> SUFFICES ASSUME NEW u \in Targets, NEW v \in Workers, asked'[u] = v
                 PROVE  /\ target'[v] = u
                        /\ pc'[v] # "idle"
                        /\ pc'[v] \in Publishing => vstate'[u] = "uncertain"
                        /\ pc'[v] \in Unpublishing => vstate'[u] = "unpublishing"
      BY DEF AskedInv
    <3>1. CASE u = t
      BY <1>10, <2>1, <3>1 DEF Publishing, Unpublishing
    <3>2. CASE u # t
      BY <1>0, <2>1, <2>2, <3>2 DEF AskedInv
    <3>3. QED
      BY <3>1, <3>2
  <2>4. ASSUME NEW p \in Late' PROVE p \in Late
    <3>1. /\ p \in Workers \X {0} /\ p[1] \in Workers
          /\ pc'[p[1]] \in Publishing /\ asked'[target'[p[1]]] # p[1]
      BY <2>4 DEF Late
    <3>2. p[1] # w
      BY <2>1, <3>1
    <3>3. pc[p[1]] \in Publishing /\ target'[p[1]] = target[p[1]]
      BY <2>1, <3>1, <3>2
    <3>4. target[p[1]] \in Targets
      BY <1>t, <3>1, <3>3 DEF Publishing
    <3>5. asked[target[p[1]]] # p[1]
      BY <1>t, <1>10, <2>1, <3>1, <3>3, <3>4
    <3>6. QED
      BY <3>1, <3>3, <3>5 DEF Late
  <2>5. \A u \in Targets : Due(u) => Due(u)'
    <3>1. CASE label = "n_start"
      BY <1>10, <2>1, <2>2, <3>1 DEF Due
    <3>2. CASE label = "u_check"
      BY <1>10, <2>1, <2>2, <3>2 DEF Due
    <3>3. QED
      BY <1>10, <3>1, <3>2
  <2>6. Surplus' \subseteq Surplus
    BY <1>0, <1>10, <2>5, FewerBinds
  <2>7. QED
    BY <1>0, <1>t, <1>10, <2>3, <2>4, <2>6, DebtShrinks
<1>11. ASSUME NEW w \in Workers, NEW t \in Targets,
              AskPublish(w, t) \/ AskUnpublish(w, t)
       PROVE  AskedInv' /\ DebtInv'
  <2>1. CASE AskPublish(w, t)
    BY <1>10, <2>1 DEF AskPublish, Ask
  <2>2. CASE AskUnpublish(w, t)
    BY <1>10, <2>2 DEF AskUnpublish, Ask
  <2>3. QED
    BY <1>11, <2>1, <2>2
<1>12. ASSUME NEW t \in Targets, CallTimeout(t) PROVE AskedInv' /\ DebtInv'
  <2>1. /\ faults' = faults + 1
        /\ asked[t] \in Workers /\ asked'[t] = Nobody
        /\ \A u \in Targets : u # t => asked'[u] = asked[u]
        /\ UNCHANGED <<pc, bind, target, vstate>>
    BY <1>t, <1>12 DEF CallTimeout, OneShot
  <2>2. AskedInv'
    <3> SUFFICES ASSUME NEW u \in Targets, NEW v \in Workers, asked'[u] = v
                 PROVE  /\ target[v] = u
                        /\ pc[v] # "idle"
                        /\ pc[v] \in Publishing => vstate[u] = "uncertain"
                        /\ pc[v] \in Unpublishing => vstate[u] = "unpublishing"
      BY <2>1 DEF AskedInv
    <3>1. asked[u] = v
      BY <1>t, <2>1
    <3>2. QED
      BY <1>0, <3>1 DEF AskedInv
  <2>3. \A u \in Targets : Due(u) => Due(u)'
    BY <1>t, <2>1 DEF Due
  <2>4. Surplus' \subseteq Surplus
    BY <1>0, <2>1, <2>3, FewerBinds
  <2>5. ASSUME NEW p \in Late' PROVE p \in Late \cup {<<asked[t], 0>>}
    <3>1. /\ p \in Workers \X {0} /\ p = <<p[1], 0>> /\ p[1] \in Workers
          /\ pc[p[1]] \in Publishing /\ asked'[target[p[1]]] # p[1]
      BY <2>1, <2>5 DEF Late
    <3>2. target[p[1]] \in Targets
      BY <1>t, <3>1 DEF Publishing
    <3>3. CASE asked[target[p[1]]] # p[1]
      BY <3>1, <3>3 DEF Late
    <3>4. CASE asked[target[p[1]]] = p[1]
      <4>1. target[p[1]] = t
        BY <2>1, <3>1, <3>2, <3>4
      <4>2. QED
        BY <3>1, <3>4, <4>1
    <3>5. QED
      BY <3>3, <3>4
  <2>6. Debt' \subseteq Debt \cup {<<asked[t], 0>>}
    BY <2>4, <2>5 DEF Debt
  <2>7. QED
    BY <1>0, <1>t, <2>1, <2>2, <2>6, DebtGrows
<1>13. ASSUME NEW t \in Targets, Reuse(t) PROVE AskedInv' /\ DebtInv'
  <2>1. /\ vstate[t] = "unpublished"
        /\ vstate'[t] = "none"
        /\ \A u \in Targets : u # t => vstate'[u] = vstate[u]
        /\ UNCHANGED <<pc, faults, bind, target, asked>>
    BY <1>t, <1>13 DEF Reuse
  <2>2. AskedInv'
    <3>1. \A w \in Workers : asked[t] # w
      BY <1>0, <1>t, <2>1 DEF AskedInv, Labels
    <3>2. QED
      BY <1>0, <2>1, <3>1 DEF AskedInv
  <2>3. \A u \in Targets : Due(u) => Due(u)'
    BY <2>1 DEF Due
  <2>4. Surplus' \subseteq Surplus
    BY <1>0, <2>1, <2>3, FewerBinds
  <2>5. Late' \subseteq Late
    BY <2>1 DEF Late
  <2>6. QED
    BY <1>0, <1>t, <2>1, <2>2, <2>4, <2>5, DebtShrinks
<1>14. ASSUME NEW d \in Devs, Process(d) PROVE AskedInv' /\ DebtInv'
  <2>1. UNCHANGED <<pc, bind, target, asked, vstate>> /\ faults <= faults'
    BY <1>t, <1>14 DEF Process, ProcessMounts, ProcessDies, OneShot
  <2>2. AskedInv' /\ Surplus' = Surplus /\ Late' = Late
    BY <1>0, <2>1 DEF AskedInv, Surplus, Due, Late
  <2>3. QED
    BY <1>0, <1>t, <2>1, <2>2, DebtShrinks
<1>15. CASE Reboot
  <2>1. AskedInv'
    BY <1>t, <1>15 DEF Reboot, AskedInv
  <2>2. Surplus' = {} /\ Late' = {}
    BY <1>15 DEF Reboot, Surplus, Late, Publishing
  <2>3. faults' = faults
    BY <1>15 DEF Reboot
  <2>4. QED
    BY <1>0, <1>t, <2>1, <2>2, <2>3, DebtShrinks
<1>16. CASE UNCHANGED vars
  <2>1. UNCHANGED <<pc, bind, target, asked, vstate, faults>>
    BY <1>16 DEF vars
  <2>2. AskedInv' /\ Surplus' = Surplus /\ Late' = Late
    BY <1>0, <2>1 DEF AskedInv, Surplus, Due, Late
  <2>3. QED
    BY <1>0, <1>t, <2>1, <2>2, DebtShrinks
<1>17. QED
  BY <1>1, <1>2, <1>3, <1>4, <1>5, <1>6, <1>7, <1>8, <1>9, <1>11, <1>12,
     <1>13, <1>14, <1>15, <1>16 DEF Next, Call

(* The inductive invariant: the types, kubelet's calls, and a fault for    *)
(* every mount that is or will be in surplus.                              *)
THEOREM Invariance == Spec => []IInv
<1>1. Init => IInv
  BY InitType, InitDebt DEF IInv
<1>2. IInv /\ [Next]_vars => IInv'
  BY NextType, NextDebt DEF IInv
<1>3. QED
  BY <1>1, <1>2, PTL DEF Spec

(* However many calls overlap, unpublished targets keep at most one mount  *)
(* for every fault: each was bound by a publish whose answer was lost.     *)
THEOREM LeftoversBoundedHolds == Spec => []LeftoversBounded
<1>1. ASSUME IInv PROVE LeftoversBounded
  <2>1. \A t \in Targets : vstate[t] = "unpublished" => ~Due(t)
    BY DEF Due
  <2>2. \A t \in Targets : DOMAIN bind[t] \subseteq Nat
    BY <1>1, LenProperties DEF IInv, TypeInv, TypeOK
  <2>3. Leftovers \subseteq Debt
    BY <2>1, <2>2 DEF Leftovers, Debt, Surplus
  <2>4. /\ IsFiniteSet(Debt) /\ Cardinality(Debt) \in Nat
        /\ faults \in Nat /\ Cardinality(Debt) <= faults
    BY <1>1, FS_CardinalityType DEF IInv, DebtInv, TypeInv
  <2>5. IsFiniteSet(Leftovers) /\ Cardinality(Leftovers) <= Cardinality(Debt)
    BY <2>3, <2>4, FS_Subset
  <2>6. Cardinality(Leftovers) \in Nat
    BY <2>5, FS_CardinalityType
  <2>7. QED
    BY <2>4, <2>5, <2>6 DEF LeftoversBounded
<1>2. QED
  BY Invariance, <1>1, PTL

=============================================================================
