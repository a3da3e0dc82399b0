------------------------------ MODULE RefCount ------------------------------
(***************************************************************************)
(* What the mount pod of a volume promises to the application pods of a    *)
(* node: a shared resource that is up while somebody uses it.  A user      *)
(* joins before it is served and leaves when it is served no more; the     *)
(* resource ends only when nobody is registered and, if it lingers, only   *)
(* when the deadline set after the last user left has passed.  How it is   *)
(* implemented (annotations, optimistic updates, a mutex, restarts of the  *)
(* plugin) does not show here.                                             *)
(***************************************************************************)
EXTENDS Naturals

CONSTANTS
    Users,     \* who may use the resource
    Lingers    \* an unused resource is kept for a while

VARIABLES
    up,        \* the resource exists
    users,     \* who is registered
    due,       \* when an unused resource may end, 0 when that is not set
    clock,
    served     \* who has been told that the resource is there

rcVars == <<up, users, due, clock, served>>

Init ==
    /\ up = FALSE
    /\ users = {} /\ served = {}
    /\ due = 0 /\ clock = 0

(* The first user brings the resource up; a deadline is forgotten. *)
Join(t) ==
    /\ up' = TRUE
    /\ users' = users \cup {t}
    /\ due' = 0
    /\ UNCHANGED <<clock, served>>

Report(t) ==
    /\ up /\ t \in users
    /\ served' = served \cup {t}
    /\ UNCHANGED <<up, users, due, clock>>

Release(t) ==
    /\ served' = served \ {t}
    /\ UNCHANGED <<up, users, due, clock>>

Leave(t) ==
    /\ t \in users \ served
    /\ users' = users \ {t}
    /\ UNCHANGED <<up, due, clock, served>>

SetDeadline ==
    /\ Lingers
    /\ up /\ users = {} /\ due = 0
    /\ due' = clock + 1
    /\ UNCHANGED <<up, users, clock, served>>

End ==
    /\ up /\ users = {}
    /\ Lingers => due > 0 /\ due <= clock
    /\ up' = FALSE
    /\ due' = 0
    /\ UNCHANGED <<users, clock, served>>

Advance ==
    /\ clock' = clock + 1
    /\ UNCHANGED <<up, users, due, served>>

Next ==
    \/ \E t \in Users : Join(t) \/ Report(t) \/ Release(t) \/ Leave(t)
    \/ SetDeadline \/ End \/ Advance

Spec == Init /\ [][Next]_rcVars

=============================================================================
