SPECIFICATION Spec
CONSTANTS
    Callers = {c1, c2}
    NoCall = NoCall
    JobFaults = {"crash", "jobError"}
    MaxFaults = 2
CHECK_DEADLOCK FALSE
INVARIANT ProvisionedHasDirectory
