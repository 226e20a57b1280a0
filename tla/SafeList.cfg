SPECIFICATION Spec
CONSTANTS
    Entries = {e1, e2, e3}
    HEAD = HEAD
    NULL = NULL
    MaxDepth = 3
SYMMETRY Symmetry
INVARIANTS
    ChainsExact
PROPERTIES
    ImplementsSafeIteration
