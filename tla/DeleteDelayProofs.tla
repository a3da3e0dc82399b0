------------------------- MODULE DeleteDelayProofs --------------------------
(***************************************************************************)
(* Proofs about DeleteDelay, for every clock resolution, set of delays,    *)
(* horizon and number of uses, and for the time zones in which they hold.  *)
(***************************************************************************)
EXTENDS DeleteDelay, TLAPS

(* The deadline as a point in time: what GetTime makes of the text         *)
(* GetTimeAfterDelay wrote at time m for the delay d.                      *)
DueAt(m, d) == GetTime((m + d + Zone) \div Second)

(* The text in the annotation was written when "marked" says, by the       *)
(* delay the pod has, and after its last user left; a pod in use has none. *)
MarkInv ==
    /\ used => delayAt = NoText
    /\ delayAt # NoText =>
          /\ delay \in Delays
          /\ delayAt = (marked + delay + Zone) \div Second
          /\ since <= marked

(* A pod that is gone went unused, and with a delay not before its         *)
(* deadline.                                                               *)
GoneInv ==
    ~up => /\ ~used
           /\ delay \in Delays => delayAt # NoText /\ ~(now < GetTime(delayAt))

(* A pod that was let wait had a delay, and was waited for until then. *)
WaitInv ==
    waited > marked => delay \in Delays /\ waited < DueAt(marked, delay)

(* The inductive invariant. *)
IInv == TypeOK /\ MarkInv /\ GoneInv /\ WaitInv

(* Cutting the text to whole seconds loses less than a second. *)
LEMMA WholeSeconds ==
    ASSUME NEW a \in Int
    PROVE  /\ a \div Second \in Int
           /\ GetTime(a \div Second) <= a
           /\ GetTime(a \div Second) > a - Second
<1> DEFINE q == a \div Second
<1>1. Second \in Int /\ Second > 0
  BY DelayAssumption
<1>2. q \in Int /\ Second * q <= a /\ a < Second * (q + 1)
  BY <1>1
<1>3. Second * (q + 1) = Second * q + Second /\ q * Second = Second * q
  BY <1>1, <1>2
<1>4. QED
  BY <1>1, <1>2, <1>3 DEF GetTime

LEMMA InitInv == Init => IInv
BY DelayAssumption DEF Init, IInv, TypeOK, MarkInv, GoneInv, WaitInv

(* Every step keeps the invariant. *)
LEMMA StepPreserves == IInv /\ [Next]_vars => IInv'
<1> SUFFICES ASSUME IInv, [Next]_vars PROVE IInv'
  OBVIOUS
<1> USE DelayAssumption DEF IInv, TypeOK, MarkInv, GoneInv, WaitInv
<1>1. CASE AddRefOfMount
  BY <1>1 DEF AddRefOfMount
<1>2. CASE LastRefGone
  BY <1>2 DEF LastRefGone
<1>3. CASE ShouldDelay /\ Delete
  <2>1. NoText \notin Delays /\ BadText \notin Delays
    <3>1. \A d \in Delays : d \in Int
      OBVIOUS
    <3>2. QED
      BY <3>1, Zenon
  <2>2. GoneInv'
    BY <1>3, <2>1 DEF ShouldDelay, Delete, GetTime
  <2>3. TypeOK' /\ MarkInv' /\ WaitInv'
    BY <1>3 DEF ShouldDelay, Delete, DueAt, GetTime
  <2>4. QED
    BY <2>2, <2>3
<1>4. CASE ShouldDelay /\ SetDelayAt
  <2>1. now + delay + Zone \in Int
    BY <1>4 DEF SetDelayAt
  <2>2. GetTimeAfterDelay(delay) \in Int
    BY <2>1, WholeSeconds DEF GetTimeAfterDelay
  <2>3. QED
    BY <1>4, <2>2 DEF ShouldDelay, SetDelayAt, GetTimeAfterDelay
<1>5. CASE ShouldDelay /\ Waits
  BY <1>5 DEF ShouldDelay, Waits, DueAt
<1>6. CASE Tick
  BY <1>6 DEF Tick, GetTime
<1>7. CASE UNCHANGED vars
  BY <1>7 DEF vars
<1>8. QED
  BY <1>1, <1>2, <1>3, <1>4, <1>5, <1>6, <1>7 DEF Next, ShouldDelay

(* The inductive invariant holds in every reachable state. *)
THEOREM Invariance == Spec => []IInv
BY InitInv, StepPreserves, PTL DEF Spec

(* Every variable keeps its type. *)
THEOREM TypeCorrect == Spec => []TypeOK
<1>1. IInv => TypeOK
  BY DEF IInv
<1>2. QED
  BY <1>1, Invariance, PTL

(* At UTC and east of it, a mount pod is kept for its delay after the last *)
(* user left, up to a second, however often it is used again in between.   *)
THEOREM KeptForDelayHolds ==
    ASSUME Zone >= 0
    PROVE  Spec => []KeptForDelay
<1>1. ASSUME IInv PROVE KeptForDelay
  <2>1. SUFFICES ASSUME ~up, delay \in Delays
                 PROVE  now - since > delay - Second
    BY DEF KeptForDelay
  <2>2. /\ marked \in Int /\ since \in Int /\ now \in Int /\ delay \in Int
        /\ Zone \in Int /\ Second \in Int
    BY <1>1, <2>1, DelayAssumption DEF IInv, TypeOK
  <2>3. /\ delayAt = (marked + delay + Zone) \div Second
        /\ since <= marked /\ ~(now < GetTime(delayAt))
    BY <1>1, <2>1 DEF IInv, MarkInv, GoneInv
  <2>4. /\ GetTime(delayAt) \in Int
        /\ GetTime(delayAt) > marked + delay + Zone - Second
    BY <2>2, <2>3, WholeSeconds DEF GetTime
  <2>5. QED
    BY <2>2, <2>3, <2>4
<1>2. QED
  BY <1>1, Invariance, PTL

(* At UTC and west of it, no call that comes the delay after the deadline  *)
(* was written lets the pod wait.                                          *)
THEOREM NotKeptLongerHolds ==
    ASSUME Zone <= 0
    PROVE  Spec => []NotKeptLonger
<1>1. ASSUME IInv PROVE NotKeptLonger
  <2>1. SUFFICES ASSUME waited > marked
                 PROVE  waited < marked + delay
    BY DEF NotKeptLonger
  <2>2. /\ delay \in Delays /\ waited < DueAt(marked, delay)
        /\ marked \in Int /\ waited \in Int /\ delay \in Int /\ Zone \in Int
    BY <1>1, <2>1, DelayAssumption DEF IInv, TypeOK, WaitInv
  <2>3. DueAt(marked, delay) <= marked + delay + Zone
    BY <2>2, WholeSeconds DEF DueAt
  <2>4. DueAt(marked, delay) \in Int
    BY <2>2, WholeSeconds, DelayAssumption DEF DueAt, GetTime
  <2>5. QED
    BY <2>2, <2>3, <2>4
<1>2. QED
  BY <1>1, Invariance, PTL

=============================================================================
