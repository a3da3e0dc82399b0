SPECIFICATION Spec
CONSTANTS
    Targets = {t1, t2}
    Workers = {w1, w2}
    Rec = Rec
    Nobody = Nobody
    HasDelay = FALSE
    Horizon = 0
    Faults = {}
    MaxFaults = 0
    Manager = TRUE
SYMMETRY Symmetry
PROPERTY PrunesOnlyDeleted
