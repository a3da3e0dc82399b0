\* A call that is repeated while the one given up goes on.
SPECIFICATION FairSpec
CONSTANTS
    Workers = {w1, w2}
    Nobody = Nobody
    MaxDevs = 5
    Faults = {"clientCrash", "slow", "crash", "callTimeout"}
    MaxFaults = 2
 
PROPERTY Answered
