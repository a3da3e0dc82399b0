\* One pod, one fault of any class but a slow cluster and a rejected pod.
SPECIFICATION FairSpec
CONSTANTS
    Targets = {t1}
    Workers = {w1, w2}
    Rec = Rec
    Nobody = Nobody
    HasDelay = FALSE
    Horizon = 0
    Faults = {"crash", "userDelete", "podError", "apiError", "callTimeout", "localError"}
    MaxFaults = 1
    Manager = TRUE
PROPERTIES UnusedPodDeleted PublishSucceeds MountPodRecreated
