SPECIFICATION Spec
CONSTANTS
    Second = 2
    Delays = {0, 1, 3, 4}
    Zone <- Utc
    NoText = NoText
    BadText = BadText
    MaxUses = 2
    Horizon = 16
CHECK_DEADLOCK FALSE
INVARIANTS TypeOK KeptForDelay NotKeptLonger
