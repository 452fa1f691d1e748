CONSTANTS
    Tokens = {ann}
    Owner = root
    Nobody = nobody
    Deps = {1}
    Bound <- WritesOnly
    MaxEvents = 2
    Torn = FALSE
    Overlap = FALSE
SPECIFICATION Spec
CHECK_DEADLOCK FALSE
INVARIANT StoreOwn
