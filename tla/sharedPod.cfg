\* Without the reconciler, whatever else fails.
SPECIFICATION Spec
CONSTANTS
    Targets = {t1, t2}
    Workers = {w1, w2}
    Rec = Rec
    Nobody = Nobody
    HasDelay = TRUE
    Horizon = 2
    Faults = {"crash", "podError", "slow", "callTimeout", "localError", "apiError", "resource"}
    MaxFaults = 2
    Manager = FALSE
SYMMETRY Symmetry
CHECK_DEADLOCK FALSE
INVARIANT MountedIsReferenced
PROPERTY ImplementsRefCount
