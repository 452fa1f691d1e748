CONSTANTS
    Slugs = {blog, shop}
    Ports = {1, 2}
    Bound <- OneOfEach
SPECIFICATION Spec
SYMMETRY Sym
CHECK_DEADLOCK FALSE
INVARIANTS PortsApart NeverOpen
PROPERTY TokenLeavesOff
