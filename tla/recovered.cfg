\* Targets and subpaths work again after a crash or a deletion.
SPECIFICATION FairSpec
CONSTANTS
    Vols = {v1}
    Apps = {a1}
    Uses <- AllUses
    SubUses <- AllUses
    NamePrefix <- NoPrefixes
    Workers = {w1}
    Nobody = Nobody
    Faults = {"clientCrash", "userDelete"}
    MaxFaults = 2
INVARIANT MountsBounded
PROPERTIES RecoveryKeepsWorking Recovered AppStarts AppRemoved
