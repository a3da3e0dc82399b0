\* Two pods, two handler threads and the reconciler share a mount pod with
\* a delete delay.
SPECIFICATION Spec
CONSTANTS
    Targets = {t1, t2}
    Workers = {w1, w2}
    Rec = Rec
    Nobody = Nobody
    HasDelay = TRUE
    Horizon = 1
    Faults = {"crash", "userDelete", "resource"}
    MaxFaults = 1
    Manager = TRUE
SYMMETRY Symmetry
INVARIANTS TypeOK NoPanic UmountDeletesUnused UmountHonoursDelay
PROPERTIES FirstPassDropsOnlyDeleted MarksOnlyUnused
