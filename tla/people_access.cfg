CONSTANTS
    People = {ann, bob}
    Owner = root
    Jobs = {j1, j2, j3}
    NoJob = none
    Begins <- MCBegins
    MaxEvents = 4
SPECIFICATION Spec
SYMMETRY Sym
CHECK_DEADLOCK FALSE
INVARIANTS NoCircle GoneHoldNothing GivenByAdmins ProjectionKnown
PROPERTY KeepsWhenBack
