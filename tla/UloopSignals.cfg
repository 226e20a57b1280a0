SPECIFICATION Spec
CONSTANT MaxDepth = 3
INVARIANTS
    HandledDuringRuns
PROPERTIES
    CustomKept
