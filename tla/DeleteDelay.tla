----------------------------- MODULE DeleteDelay ----------------------------
(***************************************************************************)
(* The deletion deadline of an unused mount pod: GetTimeAfterDelay,        *)
(* GetTime and ShouldDelay on a real clock.  MountPod has one tick of      *)
(* delay; here the deadline is what the annotation juicefs-delete-at       *)
(* holds, a text of whole seconds on the wall clock of the plugin without  *)
(* its time zone, written and read back while users come and go.           *)
(***************************************************************************)
EXTENDS Integers

CONSTANTS
    Second,      \* ticks of the clock per second
    Delays,      \* durations of juicefs/mount-delete-delay, in ticks
    Zone,        \* ticks the plugin's local time is ahead of UTC
    NoText,      \* no annotation
    BadText,     \* a text that does not parse, set by juicefs/mount-annotations
    MaxUses,     \* bound on the number of times the volume is used again
    Horizon      \* bound on the clock

ASSUME DelayAssumption ==
    /\ Second \in Nat \ {0} /\ Delays \subseteq Nat
    /\ Zone \in Int /\ Zone % Second = 0
    /\ MaxUses \in Nat /\ Horizon \in Nat
    /\ NoText \notin Int /\ BadText \notin Int /\ NoText # BadText

VARIABLES
    now,       \* time.Now()
    delay,     \* annotation juicefs-delete-delay of the pod
    delayAt,   \* annotation juicefs-delete-at of the pod
    used,      \* the pod has a reference
    up,        \* the pod has not been deleted
    uses,      \* times it was used again
    since,     \* when the last reference went (history)
    marked,    \* when the deadline was written (history)
    waited     \* when a call last let the pod wait for it (history)

vars == <<now, delay, delayAt, used, up, uses, since, marked, waited>>

(* The type of every variable. *)
TypeOK ==
    /\ now \in 0..Horizon /\ since \in 0..now
    /\ marked \in 0..now /\ waited \in 0..now
    /\ delay \in Delays \cup {NoText, BadText}
    /\ delayAt \in Int \cup {NoText}
    /\ used \in BOOLEAN /\ up \in BOOLEAN
    /\ uses \in 0..MaxUses

Init ==
    /\ now = 0
    /\ delay \in Delays \cup {NoText, BadText}
    /\ delayAt = NoText
    /\ used = TRUE /\ up = TRUE /\ uses = 0
    /\ since = 0 /\ marked = 0 /\ waited = 0

-----------------------------------------------------------------------------
(* Format("2006-01-02 15:04:05") of the local time: seconds are cut off,   *)
(* the zone is not written.                                                *)
GetTimeAfterDelay(d) == (now + d + Zone) \div Second

(* mutant: the text is read one second late *)
GetTime_Late(text) == (text + 1) * Second

(* Parse takes a text without a zone as UTC. *)
GetTime(text) == text * Second

(* mutant: AddRefOfMount keeps the deadline *)
AddRefOfMount_Keep ==
    /\ up /\ ~used /\ uses < MaxUses
    /\ used' = TRUE
    /\ uses' = uses + 1
    /\ UNCHANGED <<now, delay, delayAt, up, since, marked, waited>>

(* a reference is added, the deadline goes *)
AddRefOfMount ==
    /\ up /\ ~used /\ uses < MaxUses
    /\ used' = TRUE
    /\ uses' = uses + 1
    /\ delayAt' = NoText
    /\ UNCHANGED <<now, delay, up, since, marked, waited>>

(* JUmount takes the last reference off *)
LastRefGone ==
    /\ up /\ used
    /\ used' = FALSE
    /\ since' = now
    /\ UNCHANGED <<now, delay, delayAt, up, uses, marked, waited>>

(* ShouldDelay: a delay that is not configured or does not parse is none *)
Delete ==
    /\ \/ delay \in {NoText, BadText}
       \/ delayAt # NoText /\ ~(now < GetTime(delayAt))
    /\ up' = FALSE
    /\ UNCHANGED <<now, delay, delayAt, used, uses, since, marked, waited>>

(* mutant: the error of ParseDuration is not looked at *)
SetDelayAt_Unparsed ==
    /\ delay # NoText
    /\ delayAt = NoText
    /\ delayAt' = IF delay = BadText THEN BadText ELSE GetTimeAfterDelay(delay)
    /\ marked' = now
    /\ UNCHANGED <<now, delay, used, up, uses, since, waited>>

SetDelayAt ==
    /\ delay \notin {NoText, BadText}
    /\ delayAt = NoText
    /\ delayAt' = GetTimeAfterDelay(delay)
    /\ marked' = now
    /\ UNCHANGED <<now, delay, used, up, uses, since, waited>>

Waits ==
    /\ delay \in Delays
    /\ delayAt # NoText /\ now < GetTime(delayAt)
    /\ waited' = now
    /\ UNCHANGED <<now, delay, delayAt, used, up, uses, since, marked>>

(* deleteMountPod in JUmount, and the end of checkAnnotations in every     *)
(* round of the reconciler                                                 *)
ShouldDelay == up /\ ~used /\ (Delete \/ SetDelayAt \/ Waits)

Tick ==
    /\ now < Horizon
    /\ now' = now + 1
    /\ UNCHANGED <<delay, delayAt, used, up, uses, since, marked, waited>>

Next == AddRefOfMount \/ LastRefGone \/ ShouldDelay \/ Tick

Spec == Init /\ [][Next]_vars

-----------------------------------------------------------------------------
(* A mount pod with a delete delay is kept for that long after its last    *)
(* user left, up to the second GetTimeAfterDelay cuts off, however often   *)
(* it was used again before.                                               *)
KeptForDelay ==
    (~up /\ delay \in Delays) => now - since > delay - Second

(* ShouldDelay keeps an unused pod no longer than its delay: no call that  *)
(* comes that long after the deadline was written lets it wait.            *)
NotKeptLonger == waited > marked => waited < marked + delay

=============================================================================
