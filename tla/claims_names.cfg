CONSTANTS
    Tokens = {ann, bob}
    Owner = root
    Nobody = nobody
    Deps = {1, 2}
    Bound <- OneOfEach
    MaxEvents = 4
    Torn = FALSE
    Overlap = FALSE
SPECIFICATION Spec
SYMMETRY Sym
CHECK_DEADLOCK FALSE
INVARIANTS HeldWasLaid
PROPERTIES AdminCreated
