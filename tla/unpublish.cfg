\* Calls that overlap, restarts, busy mounts and a deleted mount pod.
SPECIFICATION Spec
CONSTANTS
    Vols = {v1}
    Apps = {a1}
    Uses <- AllUses
    SubUses <- AllUses
    NamePrefix <- NoPrefixes
    Workers = {w1, w2}
    Nobody = Nobody
    Faults = {"clientCrash", "callTimeout", "busy", "pluginCrash", "hang", "removeDir",
              "userDelete"}
    MaxFaults = 2
SYMMETRY Symmetry
INVARIANTS UnpublishedIsUnbound PublishedStaysMounted
