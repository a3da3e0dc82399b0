\* Every class of fault.
SPECIFICATION FairSpec
CONSTANTS
    Callers = {c1, c2}
    NoCall = NoCall
    JobFaults = {"crash", "apiError", "slow", "jobError", "callTimeout"}
    MaxFaults = 2
CHECK_DEADLOCK FALSE
INVARIANTS TypeOK ProvisionedUnlessLost DeletedUnlessLost
PROPERTY CallsSucceed
