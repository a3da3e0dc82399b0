\* A publish that is repeated while two calls nobody waits for go on.
SPECIFICATION FairSpec
CONSTANTS
    Targets = {t1}
    Workers = {w1, w2, w3}
    Nobody = Nobody
    MaxDevs = 4
    Faults = {"clientCrash", "callTimeout", "slow", "format"}
    MaxFaults = 2
INVARIANT LeftoversBounded
PROPERTY PublishAnswered
